---- MODULE Spec2Model ----
(***************************************************************************)
(* Model of the global assembly and Dirichlet handling of the VEM          *)
(* mechanics core (opm/geomech/vem/vem.cpp).                               *)
(*                                                                         *)
(* Floating-point quantities whose value is computed from point            *)
(* coordinates (local stiffness entries, triangle areas, tetrahedron       *)
(* volumes, edge lengths) are represented by integers that depend on the   *)
(* global identity of the points involved, so that every index             *)
(* computation of the code (local-to-global translation, attribution of    *)
(* triangles to corners, renumbering) is observable in the result.         *)
(* C arrays are sequences; At(s, i) reads the 0-based position i.          *)
(***************************************************************************)
EXTENDS Integers, Sequences, FiniteSets, TLC

\* ------------------------------------------------------------------ bounds
\* longest Dirichlet index array that is drawn
MaxFixed == 2
\* Dirichlet indices are drawn among the dofs 0..MaxFixDof-1
MaxFixDof == 4
\* prescribed values are base + dof index, base in 1..MaxFixVal
MaxFixVal == 1
\* largest row/column count of a matmul operand
MaxMatDim == 2
\* largest corner count of a tessellated face
MaxCorners == 5
\* largest number of faces of a cell handed to compute_cell_geometry
MaxFaces == 2
\* number of cells global_to_local_indexing is called for in a row
MaxCalls == 2

\* ----------------------------------------------------------------- helpers
At(s, i) == s[i + 1]

Min(a, c) == IF a < c THEN a ELSE c

RECURSIVE SumSeq(_)
SumSeq(s) == IF s = <<>> THEN 0 ELSE Head(s) + SumSeq(Tail(s))

RECURSIVE MaxSeq(_)
MaxSeq(s) == IF Len(s) = 1 THEN s[1]
             ELSE LET m == MaxSeq(Tail(s)) IN IF s[1] > m THEN s[1] ELSE m

\* std::accumulate(a + from, a + to, 0) over 0-based positions from..to-1
Accumulate(a, from, to) == SumSeq(SubSeq(a, from + 1, to))

RECURSIVE Concat(_)
Concat(ss) == IF ss = <<>> THEN <<>> ELSE Head(ss) \o Concat(Tail(ss))

Row(t) == t[1]
Col(t) == t[2]
Val(t) == t[3]

\* variant: the check demands strictly increasing indices
IsSorted_Strict(s) == \A i \in 1..(Len(s) - 1) : s[i] < s[i + 1]

\* std::is_sorted: no element is smaller than its predecessor
IsSorted(s) == \A i \in 1..(Len(s) - 1) : ~(s[i + 1] < s[i])

\* value of the summed (coordinate format) matrix at (r, col)
SumAt(A, r, col) ==
    LET hits == SelectSeq(A, LAMBDA t : Row(t) = r /\ Col(t) = col)
    IN SumSeq([k \in 1..Len(hits) |-> Val(hits[k])])

\* ------------------------------------------------- std::sort by column
\* std::sort with a comparator on the column only: the order of triplets of
\* one column is unspecified.  Two orders are modelled, selected per build:
\* equal columns keep their order ("stable") or come out reversed
\* ("reversed").
RECURSIVE Reverse(_)
Reverse(s) == IF s = <<>> THEN <<>> ELSE Reverse(Tail(s)) \o <<Head(s)>>

ColumnsOf(A) == {Col(A[k]) : k \in 1..Len(A)}

RECURSIVE SortCols(_, _, _)
SortCols(A, cols, variant) ==
    IF cols = {} THEN <<>>
    ELSE LET c == CHOOSE x \in cols : \A y \in cols : x <= y
             grp == SelectSeq(A, LAMBDA t : Col(t) = c)
         IN (IF variant = "stable" THEN grp ELSE Reverse(grp))
            \o SortCols(A, cols \ {c}, variant)

SortByColumn(A, variant) == SortCols(A, ColumnsOf(A), variant)

\* std::lower_bound(from, end, dof) on the column: first 1-based position
\* p >= from whose column is not smaller than dof, Len(A)+1 if none
RECURSIVE LowerBound(_, _, _)
LowerBound(A, from, dof) ==
    IF from > Len(A) THEN Len(A) + 1
    ELSE IF ~(Col(A[from]) < dof) THEN from
    ELSE LowerBound(A, from + 1, dof)

\* variant: the range of a column ends after its first triplet
FindIfNot_FirstOnly(A, from, dof) == from + 1

\* std::find_if(from, end, column != dof)
RECURSIVE FindIfNot(_, _, _)
FindIfNot(A, from, dof) ==
    IF from > Len(A) THEN Len(A) + 1
    ELSE IF Col(A[from]) # dof THEN from
    ELSE FindIfNot(A, from + 1, dof)

\* the inner loop "for (; start != cur_end; ++start)": moves the triplets at
\* positions start..cur_end-1 to the right-hand side; zero = TRUE also
\* clears the value of the triplet (set_boundary_conditions)
RECURSIVE MoveRange(_, _, _, _, _, _)
MoveRange(A, bb, start, cur_end, value, zero) ==
    IF start = cur_end THEN [A |-> A, b |-> bb]
    ELSE LET t == A[start]
             b1 == [bb EXCEPT ![Row(t) + 1] = @ - Val(t) * value]
             A1 == IF zero THEN [A EXCEPT ![start] = <<Row(t), Col(t), 0>>]
                   ELSE A
         IN MoveRange(A1, b1, start + 1, cur_end, value, zero)

\* the loop over the fixed dofs i = 0..num_fixed_dofs-1 (1-based i here)
RECURSIVE EliminateColumns(_, _, _, _, _, _, _)
EliminateColumns(A, bb, i, cur_end, ixs, vals, zero) ==
    IF i > Len(ixs) THEN [A |-> A, b |-> bb]
    ELSE LET dof == ixs[i]
             start == LowerBound(A, cur_end, dof)
         IN IF start # Len(A) + 1 /\ Col(A[start]) = dof
            THEN LET ce == FindIfNot(A, start, dof)
                     m == MoveRange(A, bb, start, ce, vals[i], zero)
                 IN EliminateColumns(m.A, m.b, i + 1, ce, ixs, vals, zero)
            ELSE EliminateColumns(A, bb, i + 1, cur_end, ixs, vals, zero)

\* std::set_difference(keep, fixed) on two ascending ranges (merge walk)
RECURSIVE SetDifference(_, _)
SetDifference(keep, fixed) ==
    IF keep = <<>> THEN <<>>
    ELSE IF fixed = <<>> THEN keep
    ELSE IF Head(keep) < Head(fixed)
         THEN <<Head(keep)>> \o SetDifference(Tail(keep), fixed)
    ELSE IF Head(fixed) < Head(keep)
         THEN SetDifference(keep, Tail(fixed))
    ELSE SetDifference(Tail(keep), Tail(fixed))

\* keep = 0, 1, ..., b.size()-1 (std::iota)
Iota(n) == [k \in 1..n |-> k - 1]

\* renum_inv: discard_flag everywhere, then renum_inv[renum[i]] = i
RenumInv(renum, n) ==
    [k \in 1..n |->
        IF \E i \in 1..Len(renum) : renum[i] = k - 1
        THEN (CHOOSE i \in 1..Len(renum) : renum[i] = k - 1) - 1
        ELSE n + 1]

\* variant: b is compacted but not resized
RECURSIVE CompactRhs_NoResize(_, _, _)
CompactRhs_NoResize(bb, renum, i) ==
    IF i > Len(renum) THEN bb
    ELSE CompactRhs_NoResize([bb EXCEPT ![i] = bb[renum[i] + 1]], renum, i + 1)

\* the loop b[i] = b[renum[i]] for ascending i, then b.resize(renum.size())
RECURSIVE CompactRhs(_, _, _)
CompactRhs(bb, renum, i) ==
    IF i > Len(renum) THEN SubSeq(bb, 1, Len(renum))
    ELSE CompactRhs([bb EXCEPT ![i] = bb[renum[i] + 1]], renum, i + 1)

\* variant: a triplet is removed only when row and column are both fixed
Discarded_Both(el, renum_inv, discard_flag) ==
    /\ At(renum_inv, Row(el)) = discard_flag
    /\ At(renum_inv, Col(el)) = discard_flag

\* the predicate of std::remove_if in reduce_system
Discarded(el, renum_inv, discard_flag) ==
    \/ At(renum_inv, Row(el)) = discard_flag
    \/ At(renum_inv, Col(el)) = discard_flag

\* reduce_system: thrown = TRUE is the std::invalid_argument exit
reduce_system(A, bb, ixs, vals, variant) ==
    IF ~IsSorted(ixs) THEN [thrown |-> TRUE, A |-> A, b |-> bb]
    ELSE LET sorted == SortByColumn(A, variant)
             e == EliminateColumns(sorted, bb, 1, 1, ixs, vals, FALSE)
             renum == SetDifference(Iota(Len(bb)), ixs)
             discard_flag == Len(bb) + 1
             renum_inv == RenumInv(renum, Len(bb))
             kept == SelectSeq(e.A, LAMBDA t :
                        ~Discarded(t, renum_inv, discard_flag))
             renumbered == [k \in 1..Len(kept) |->
                              <<At(renum_inv, Row(kept[k])),
                                At(renum_inv, Col(kept[k])),
                                Val(kept[k])>>]
         IN [thrown |-> FALSE, A |-> renumbered,
             b |-> CompactRhs(e.b, renum, 1)]

\* variant: only the diagonal of a fixed dof is rewritten
TrivialEquations_DiagOnly(A, renum_inv, discard_flag) ==
    [k \in 1..Len(A) |->
        LET el == A[k]
            is_diag == Row(el) = Col(el)
            is_dof == At(renum_inv, Row(el)) = discard_flag
                      \/ At(renum_inv, Col(el)) = discard_flag
        IN IF is_dof /\ is_diag THEN <<Row(el), Col(el), 1>> ELSE el]

\* variant: only the entries in the column of a fixed dof are rewritten
TrivialEquations_ColumnsOnly(A, renum_inv, discard_flag) ==
    [k \in 1..Len(A) |->
        LET el == A[k]
            is_diag == Row(el) = Col(el)
            is_dof == At(renum_inv, Col(el)) = discard_flag
        IN IF is_dof
           THEN (IF is_diag THEN <<Row(el), Col(el), 1>>
                 ELSE <<Row(el), Col(el), 0>>)
           ELSE el]

\* the loop "for (auto& el : A)" of set_boundary_conditions
TrivialEquations(A, renum_inv, discard_flag) ==
    [k \in 1..Len(A) |->
        LET el == A[k]
            is_diag == Row(el) = Col(el)
            is_dof == At(renum_inv, Row(el)) = discard_flag
                      \/ At(renum_inv, Col(el)) = discard_flag
        IN IF is_dof
           THEN (IF is_diag THEN <<Row(el), Col(el), 1>>
                 ELSE <<Row(el), Col(el), 0>>)
           ELSE el]

\* the loop b[dof] = fixed_dof_values[i]
RECURSIVE SetFixedRhs(_, _, _, _)
SetFixedRhs(bb, ixs, vals, i) ==
    IF i > Len(ixs) THEN bb
    ELSE SetFixedRhs([bb EXCEPT ![ixs[i] + 1] = vals[i]], ixs, vals, i + 1)

set_boundary_conditions(A, bb, ixs, vals, variant) ==
    IF ~IsSorted(ixs) THEN [thrown |-> TRUE, A |-> A, b |-> bb]
    ELSE LET sorted == SortByColumn(A, variant)
             e == EliminateColumns(sorted, bb, 1, 1, ixs, vals, TRUE)
             renum == SetDifference(Iota(Len(bb)), ixs)
             discard_flag == Len(bb) + 1
             renum_inv == RenumInv(renum, Len(bb))
         IN [thrown |-> FALSE,
             A |-> TrivialEquations(e.A, renum_inv, discard_flag),
             b |-> SetFixedRhs(e.b, ixs, vals, 1)]

\* ------------------------------------------------ symbolic geometry
\* A point is a triple: an input corner <<"corner", p, p>> (p identifies the
\* point), the midpoint of two points <<"mid", p, q>>, or the centroid of
\* the face that is tessellated <<"centroid", 0, 0>>.
CornerPt(p) == <<"corner", p, p>>

\* pointmean<Dim>
pointmean(p, q) == <<"mid", p[2], q[2]>>

\* face_centroid<Dim>
face_centroid(corners) == <<"centroid", 0, 0>>

\* pick_points<Dim>: the coordinates of the points p_ixs[0..num_points-1]
pick_points(p_ixs, num_points) ==
    [k \in 1..num_points |-> CornerPt(p_ixs[k])]

\* the callers of tessellate_face; "volume_loop" is the volume and centroid
\* loop of compute_cell_geometry
TessellationCallers ==
    {"face_integral_impl", "compute_bodyforce_2D", "compute_applied_forces_3D",
     "compute_bodyforce_3D", "compute_face_geometry", "volume_loop"}

\* variant: the geometry functions both take the default
skip_if_tri_of_GeometryDefault(caller) ==
    caller \in {"compute_face_geometry", "volume_loop"}

\* the argument skip_if_tri at each call of tessellate_face: false is
\* passed at lines 367, 686, 735, 772 and 1432, and line 1552 leaves the
\* default of the overload for vectors, true
skip_if_tri_of(caller) == caller = "volume_loop"

\* the two triangles emitted for corner c (0-based) in the loop of
\* tessellate_face
EdgeTriangles(corners, num_corners, center, c) ==
    LET cnext == (c + 1) % num_corners
        midpt == pointmean(At(corners, c), At(corners, cnext))
    IN << <<center, At(corners, c), midpt>>,
          <<center, midpt, At(corners, cnext)>> >>

\* variant: the shortcut is taken for every face when skip_if_tri is set
tessellate_face_AnySkip(corners, num_corners, skip_if_tri, has_centroid) ==
    IF skip_if_tri
    THEN [tris |-> << SubSeq(corners, 1, num_corners) >>,
          centroid |-> <<"unwritten", 0, 0>>]
    ELSE LET center == face_centroid(corners)
         IN [tris |-> Concat([k \in 1..num_corners |->
                          EdgeTriangles(corners, num_corners, center, k - 1)]),
             centroid |-> IF has_centroid THEN center
                          ELSE <<"unwritten", 0, 0>>]

\* variant: the centroid is computed and written before the shortcut is
\* considered
tessellate_face_CentroidFirst(corners, num_corners, skip_if_tri, has_centroid) ==
    LET center == face_centroid(corners)
        written == IF has_centroid THEN center ELSE <<"unwritten", 0, 0>>
    IN IF skip_if_tri /\ num_corners = 3
       THEN [tris |-> << SubSeq(corners, 1, num_corners) >>,
             centroid |-> written]
       ELSE [tris |-> Concat([k \in 1..num_corners |->
                         EdgeTriangles(corners, num_corners, center, k - 1)]),
             centroid |-> written]

\* tessellate_face<Dim>(corners, num_corners, skip_if_tri, centroid):
\* has_centroid tells whether a non-null centroid pointer was passed;
\* centroid is the value left at that location, <<"unwritten", 0, 0>> when
\* the function did not write it
tessellate_face(corners, num_corners, skip_if_tri, has_centroid) ==
    IF skip_if_tri /\ num_corners = 3
    THEN [tris |-> << SubSeq(corners, 1, num_corners) >>,
          centroid |-> <<"unwritten", 0, 0>>]
    ELSE LET center == face_centroid(corners)
         IN [tris |-> Concat([c \in 1..num_corners |->
                          EdgeTriangles(corners, num_corners, center, c - 1)]),
             centroid |-> IF has_centroid THEN center
                          ELSE <<"unwritten", 0, 0>>]

\* triarea<Dim> / tetrahedron_volume against the cell centroid: the measure
\* of a triangle of the tessellation, a positive integer that identifies
\* the triangle by the one input corner it contains
Measure(tri) ==
    IF tri[2][1] = "corner" THEN 2 * tri[2][2] + 1 ELSE 2 * tri[3][2] + 2

\* norm(points[n1] - points[n2]) / 2 in compute_applied_forces_2D
HalfLength(n1, n2) == 1 + ((n1 + n2) % 2)

\* variant: both triangles of iteration i are weighted by corner i
face_integral_impl_SameCorner(corners, num_corners, corner_values) ==
    LET tris == tessellate_face(corners, num_corners, FALSE, FALSE).tris
    IN SumSeq([k \in 1..num_corners |->
          LET i == k - 1
              fval1 == IF corner_values = <<>> THEN 1 ELSE At(corner_values, i)
          IN Measure(At(tris, 2 * i)) * fval1
             + Measure(At(tris, 2 * i + 1)) * fval1])

\* face_integral_impl<Dim>: corner_values = <<>> stands for the null
\* pointer (every value 1)
face_integral_impl(corners, num_corners, corner_values) ==
    LET tris == tessellate_face(corners, num_corners,
                                skip_if_tri_of("face_integral_impl"), FALSE).tris
    IN SumSeq([k \in 1..num_corners |->
          LET i == k - 1
              inext == (i + 1) % num_corners
              fval1 == IF corner_values = <<>> THEN 1 ELSE At(corner_values, i)
              fval2 == IF corner_values = <<>> THEN 1
                       ELSE At(corner_values, inext)
          IN Measure(At(tris, 2 * i)) * fval1
             + Measure(At(tris, 2 * i + 1)) * fval2])

\* the loop of compute_q_3D over the corners e of one face: the integral
\* of the basis function of corner e, cvals being its indicator
BasisIntegrals(face) ==
    [k \in 1..Len(face) |->
        LET cvals == [j \in 1..Len(face) |-> IF j = k THEN 1 ELSE 0]
        IN face_integral_impl(pick_points(face, Len(face)), Len(face), cvals)]

\* ------------------------------------------------------ local matrices
\* Entry of a cell's local stiffness matrix that couples the global dofs gi
\* and gj (kseed = 0: a symmetric matrix, otherwise every entry distinct).
StiffnessValue(cell, gi, gj, seed) ==
    IF seed = 0 THEN 1 + cell + gi + gj ELSE 1 + cell + 16 * gi + gj

\* the local matrix, row-major, for corners listed in the order 'order'
\* (global point of local corner k is order[k]): what final_assembly writes
\* to target for the coordinates picked in that order
LocalMatrix(cell, order, dim, seed) ==
    LET n == dim * Len(order)
    IN [k \in 1..(n * n) |->
          LET i == (k - 1) \div n
              j == (k - 1) % n
          IN StiffnessValue(cell,
                            dim * At(order, i \div dim) + (i % dim),
                            dim * At(order, j \div dim) + (j % dim),
                            seed)]

\* ------------------------------------------------------- stability term
StabilityChoices == {"SIMPLE", "HARMONIC", "D_RECIPE"}

\* identity_matrix: an N x N zero matrix with fac written on the diagonal
identity_matrix(fac, N) ==
    [k \in 1..(N * N) |->
        IF (k - 1) \div N = (k - 1) % N THEN fac ELSE 0]

\* the scaling alpha of compute_S, an integer that stands for
\* "volume * trace(D) / trace(NtN)" when the choice is SIMPLE and for
\* "(1 / 9.0) * volume * trace(D) * invtrace(NtN)" otherwise
StabilityAlpha(stability_choice, cell) ==
    IF stability_choice = "SIMPLE" THEN 3 + cell ELSE 7 + cell

\* compute_S; asserted records that the assertion on stability_choice fails
compute_S(num_corners, dim, stability_choice, cell) ==
    [by |-> "compute_S",
     choice |-> stability_choice,
     asserted |-> ~(stability_choice = "SIMPLE" \/ stability_choice = "HARMONIC"),
     S |-> identity_matrix(StabilityAlpha(stability_choice, cell),
                           dim * num_corners)]

\* integers that stand for the matrix EWcDWct of a cell, none of them zero,
\* and for cbrt(volume)
ConformanceTerm(cell, dofs) ==
    [k \in 1..(dofs * dofs) |-> 1 + ((cell + k) % 4)]

CellDiameter(cell) == 2 + cell

\* compute_S_D_recipe: the diagonal of EWcDWct, bounded below by h
compute_S_D_recipe(EWcDWct, dofs, h) ==
    [by |-> "compute_S_D_recipe",
     choice |-> "D_RECIPE",
     asserted |-> FALSE,
     S |-> [k \in 1..(dofs * dofs) |->
              IF (k - 1) \div dofs = (k - 1) % dofs
              THEN IF h > EWcDWct[k] THEN h ELSE EWcDWct[k]
              ELSE 0]]

\* variant: every choice is handed to compute_S
final_assembly_NoRecipe(stability_choice, cell, num_nodes, dim) ==
    compute_S(num_nodes, dim, stability_choice, cell)

\* final_assembly: the function that builds S, and S
final_assembly(stability_choice, cell, num_nodes, dim) ==
    LET totdim == dim * num_nodes
    IN IF stability_choice = "D_RECIPE"
       THEN compute_S_D_recipe(ConformanceTerm(cell, totdim), totdim,
                               CellDiameter(cell))
       ELSE compute_S(num_nodes, dim, stability_choice, cell)

\* assemble_stiffness_matrix_2D: coordinates are picked in the order of
\* corner_ixs
assemble_stiffness_matrix_2D(cell, corner_list, seed) ==
    LocalMatrix(cell, corner_list, 2, seed)

\* global_to_local_indexing: the sorted list of the distinct point indices
RECURSIVE SortedSeqOf(_)
SortedSeqOf(S) ==
    IF S = {} THEN <<>>
    ELSE LET m == CHOOSE x \in S : \A y \in S : x <= y
         IN <<m>> \o SortedSeqOf(S \ {m})

\* "std::set<int> {faces, faces + faces_len}"
UniqueElements(faces) == {faces[k] : k \in 1..Len(faces)}

\* variant: the sorted indices are appended to what indexing holds
AssignIndexing_Insert(indexing, unique_elements) ==
    indexing \o SortedSeqOf(unique_elements)

\* "indexing.assign(unique_elements.begin(), unique_elements.end())" on a
\* vector that holds 'indexing' before
AssignIndexing(indexing, unique_elements) == SortedSeqOf(unique_elements)

\* the loop "reindex[indexing[i]] = i": a later i overwrites an earlier one
Reindex(indexing) ==
    [g \in {indexing[i] : i \in 1..Len(indexing)} |->
        (CHOOSE i \in 1..Len(indexing) :
            /\ indexing[i] = g
            /\ \A j \in 1..Len(indexing) : indexing[j] = g => j <= i) - 1]

\* global_to_local_indexing called with an empty indexing vector
global_to_local_indexing(faces) ==
    LET indexing == AssignIndexing(<<>>, UniqueElements(faces))
    IN [indexing |-> indexing, reindex |-> Reindex(indexing)]

\* assemble_stiffness_matrix_3D: coordinates are picked in the order of
\* 'indexing'; geometry (normals, star point, volume) is not represented
assemble_stiffness_matrix_3D(cell, faces, seed) ==
    LET g == global_to_local_indexing(faces)
    IN [indexing |-> g.indexing,
        target |-> LocalMatrix(cell, g.indexing, 3, seed)]

\* variant: the column component is taken from the row index
ScatterTriplets_RowComponent(loc, order, dim) ==
    LET n == dim * Len(order)
    IN [k \in 1..(n * n) |->
          LET i == (k - 1) \div n
              j == (k - 1) % n
              I == dim * At(order, i \div dim) + (i % dim)
              J == dim * At(order, j \div dim) + (i % dim)
          IN <<I, J, At(loc, i * n + j)>>]

\* the double loop that appends the entries of loc to A_entries; order is
\* the index list used for the local-to-global translation
ScatterTriplets(loc, order, dim) ==
    LET n == dim * Len(order)
    IN [k \in 1..(n * n) |->
          LET i == (k - 1) \div n
              j == (k - 1) % n
              I == dim * At(order, i \div dim) + (i % dim)
              J == dim * At(order, j \div dim) + (j % dim)
          IN <<I, J, At(loc, i * n + j)>>]

\* ---------------------------------------------------------------- loads
\* the loop of compute_bodyforce_2D over the triangles c..2n-1
RECURSIVE BodyForceLoop2D(_, _, _, _, _)
BodyForceLoop2D(tris, n, bforce, target, c) ==
    IF c = 2 * n THEN target
    ELSE LET k == 2 * (((c \div 2) + (c % 2)) % n)
             t0 == [target EXCEPT ![k + 1] = @ + bforce[1] * Measure(At(tris, c))]
             t1 == [t0 EXCEPT ![k + 2] = @ + bforce[2] * Measure(At(tris, c))]
         IN BodyForceLoop2D(tris, n, bforce, t1, c + 1)

compute_bodyforce_2D(corner_list, number_cell_faces, bforce, target) ==
    LET coords == pick_points(corner_list, number_cell_faces)
        tris == tessellate_face(coords, number_cell_faces,
                                skip_if_tri_of("compute_bodyforce_2D"), FALSE).tris
    IN BodyForceLoop2D(tris, number_cell_faces, bforce, target, 0)

\* the loop "b[2 * cell_corners[corner_ixs + i / 2] + i % 2] += loc[i]"
RECURSIVE AddLocalLoad(_, _, _, _, _)
AddLocalLoad(bb, loc, corner_list, dim, i) ==
    IF i = dim * Len(corner_list) THEN bb
    ELSE AddLocalLoad(
             [bb EXCEPT ![dim * At(corner_list, i \div dim) + (i % dim) + 1]
                           = @ + At(loc, i)],
             loc, corner_list, dim, i + 1)

\* b_global[3 * p + d] += amount * force[d] for d = 0, 1, 2
AddForce3(bb, p, amount, force) ==
    [k \in 1..Len(bb) |->
        IF k - 1 \in {3 * p, 3 * p + 1, 3 * p + 2}
        THEN bb[k] + amount * force[(k - 1) - 3 * p + 1]
        ELSE bb[k]]

\* compute_bodyforce_3D, the loop over the corners c of one face
RECURSIVE BodyForceCorners3D(_, _, _, _, _)
BodyForceCorners3D(bb, tris, face, bforce, c) ==
    IF c = Len(face) THEN bb
    ELSE LET t1 == At(tris, 2 * c)
             t2 == IF c = 0 THEN tris[Len(tris)] ELSE At(tris, 2 * c - 1)
             vol1 == Measure(t1)
             vol2 == Measure(t2)
         IN BodyForceCorners3D(AddForce3(bb, At(face, c), vol1 + vol2, bforce),
                               tris, face, bforce, c + 1)

\* compute_bodyforce_3D, the loop over the faces f..num_faces-1
RECURSIVE compute_bodyforce_3D(_, _, _, _, _, _)
compute_bodyforce_3D(face_corners, num_face_corners, bforce, bb, f, fcorner_start) ==
    IF f = Len(num_face_corners) THEN bb
    ELSE LET nfc == At(num_face_corners, f)
             face == SubSeq(face_corners, fcorner_start + 1, fcorner_start + nfc)
             tris == tessellate_face(pick_points(face, nfc), nfc,
                                     skip_if_tri_of("compute_bodyforce_3D"),
                                     FALSE).tris
         IN compute_bodyforce_3D(face_corners, num_face_corners, bforce,
                                 BodyForceCorners3D(bb, tris, face, bforce, 0),
                                 f + 1, fcorner_start + nfc)

\* compute_applied_forces_2D: {f_x on n1, f_y on n1, f_x on n2, f_y on n2}
compute_applied_forces_2D(n1, n2, fx, fy) ==
    LET hL == HalfLength(n1, n2)
    IN <<hL * fx, hL * fy, hL * fx, hL * fy>>

\* the Neumann loop of assemble_mech_system_2D for the faces f..
RECURSIVE ApplyNeumann2D(_, _, _, _)
ApplyNeumann2D(bb, faces, forces, f) ==
    IF f = Len(faces) \div 2 THEN bb
    ELSE LET n1 == At(faces, 2 * f)
             n2 == At(faces, 2 * f + 1)
             fvals == compute_applied_forces_2D(n1, n2, At(forces, 2 * f),
                                                At(forces, 2 * f + 1))
             b1 == [bb EXCEPT ![2 * n1 + 1] = @ + fvals[1]]
             b2 == [b1 EXCEPT ![2 * n1 + 2] = @ + fvals[2]]
             b3 == [b2 EXCEPT ![2 * n2 + 1] = @ + fvals[3]]
             b4 == [b3 EXCEPT ![2 * n2 + 2] = @ + fvals[4]]
         IN ApplyNeumann2D(b4, faces, forces, f + 1)

\* variant: triangle c goes to corner c / 2
RECURSIVE AppliedTriangles3D_Floor(_, _, _, _, _)
AppliedTriangles3D_Floor(bb, tris, face, force, c) ==
    IF c = 2 * Len(face) THEN bb
    ELSE LET area == Measure(At(tris, c))
             corner == (c \div 2) % Len(face)
         IN AppliedTriangles3D_Floor(AddForce3(bb, At(face, corner), area, force),
                                     tris, face, force, c + 1)

\* compute_applied_forces_3D, the loop over the triangles c of one face
RECURSIVE AppliedTriangles3D(_, _, _, _, _)
AppliedTriangles3D(bb, tris, face, force, c) ==
    IF c = 2 * Len(face) THEN bb
    ELSE LET area == Measure(At(tris, c))
             corner == ((c \div 2) + (c % 2)) % Len(face)
         IN AppliedTriangles3D(AddForce3(bb, At(face, corner), area, force),
                               tris, face, force, c + 1)

\* compute_applied_forces_3D, the loop over the Neumann faces nf..
RECURSIVE compute_applied_forces_3D(_, _, _, _, _, _)
compute_applied_forces_3D(num_face_corners, face_corners, faces, forces, bb, nf) ==
    IF nf = Len(faces) THEN bb
    ELSE LET nfc == At(num_face_corners, At(faces, nf))
             ix_start == Accumulate(num_face_corners, 0, At(faces, nf))
             face == SubSeq(face_corners, ix_start + 1, ix_start + nfc)
             tris == tessellate_face(pick_points(face, nfc), nfc,
                                     skip_if_tri_of("compute_applied_forces_3D"),
                                     FALSE).tris
         IN compute_applied_forces_3D(
                num_face_corners, face_corners, faces, forces,
                AppliedTriangles3D(bb, tris, face,
                                   SubSeq(forces, 3 * nf + 1, 3 * nf + 3), 0),
                nf + 1)

\* -------------------------------------------------------- cell geometry
\* Coordinates are integers, the multiples of one length quantum; a unit
\* normal has the components 0, 1 or -1, so that a scalar product with a
\* normal is again a length in quanta.
Dot(u, v) == u[1] * v[1] + u[2] * v[2] + u[3] * v[3]

pointdiff(u, v) == <<u[1] - v[1], u[2] - v[2], u[3] - v[3]>>

\* the quotient a / d (d > 0) rounded to the nearest quantum
RoundDiv(a, d) == (2 * a + d) \div (2 * d)

\* point_average<3>
point_average(points) ==
    [d \in 1..3 |->
        RoundDiv(SumSeq([k \in 1..Len(points) |-> points[k][d]]), Len(points))]

\* is_behind_face: "(face_centroid - point) . face_normal + tol > 0".  tol
\* (1e-13) is smaller than the quantum, so for a scalar product x on the
\* grid x + tol > 0 is x >= 0.
is_behind_face(point, face_normal, centroid) ==
    Dot(pointdiff(centroid, point), face_normal) >= 0

is_star_point(point, face_normals, face_centroids) ==
    \A k \in 1..Len(face_normals) :
        is_behind_face(point, face_normals[k], face_centroids[k])

\* variant: the point is moved to 0.9 times the distance, short of the plane
ProjectPastPlane_Short(result, face_normal, centroid) ==
    LET proj == Dot(pointdiff(result, centroid), face_normal)
    IN [ii \in 1..3 |-> result[ii] - RoundDiv(9 * proj * face_normal[ii], 10)]

\* variant: the point is put on the plane and then moved 1.1 times the
\* distance further
ProjectPastPlane_Beyond(result, face_normal, centroid) ==
    LET proj == Dot(pointdiff(result, centroid), face_normal)
    IN [ii \in 1..3 |-> result[ii] - RoundDiv(21 * proj * face_normal[ii], 10)]

\* "result[ii] -= 1.1 * proj * face_normals[3 * f_ix + ii]"
ProjectPastPlane(result, face_normal, centroid) ==
    LET proj == Dot(pointdiff(result, centroid), face_normal)
    IN [ii \in 1..3 |-> result[ii] - RoundDiv(11 * proj * face_normal[ii], 10)]

\* variant: the cell centroid replaces the star point untested
FinalStarPoint_Untested(cell_centroid, star_point, face_normals, face_centroids) ==
    cell_centroid

\* "if (is_star_point(cell_centroid, ..)) star_point = cell_centroid"
FinalStarPoint(cell_centroid, star_point, face_normals, face_centroids) ==
    IF is_star_point(cell_centroid, face_normals, face_centroids)
    THEN cell_centroid ELSE star_point

\* max_iter of identify_star_point for N faces
MaxIter(N) == 20 * N

\* variant: count is not reset when a face check fails
StarPointStep_NoReset(st, face_normals, face_centroids) ==
    LET N == Len(face_normals)
        f_ix == st.i % N
        behind == is_behind_face(st.result, At(face_normals, f_ix),
                                 At(face_centroids, f_ix))
        count == st.count + 1
    IN [i |-> IF count = N THEN st.i ELSE st.i + 1,
        count |-> count,
        result |-> IF behind THEN st.result
                   ELSE ProjectPastPlane(st.result, At(face_normals, f_ix),
                                         At(face_centroids, f_ix)),
        broke |-> count = N,
        checked |-> Append(st.checked, [f_ix |-> f_ix, behind |-> behind])]

\* one iteration of the loop of identify_star_point.  st holds i, count,
\* result, whether the loop was left by break, and the face checks made so
\* far with their outcomes.
StarPointStep(st, face_normals, face_centroids) ==
    LET N == Len(face_normals)
        f_ix == st.i % N
        behind == is_behind_face(st.result, At(face_normals, f_ix),
                                 At(face_centroids, f_ix))
        count == (IF behind THEN st.count ELSE 0) + 1
    IN [i |-> IF count = N THEN st.i ELSE st.i + 1,
        count |-> count,
        result |-> IF behind THEN st.result
                   ELSE ProjectPastPlane(st.result, At(face_normals, f_ix),
                                         At(face_centroids, f_ix)),
        broke |-> count = N,
        checked |-> Append(st.checked, [f_ix |-> f_ix, behind |-> behind])]

\* the sum of inward_pointing_normals
OrientationSum(normals, face_centroids) ==
    LET mean_point == point_average(face_centroids)
        dists == [k \in 1..Len(normals) |->
                     pointdiff(face_centroids[k], mean_point)]
    IN SumSeq([k \in 1..Len(normals) |-> Dot(dists[k], normals[k])])

\* variant: the test is "sum > 0"
inward_pointing_normals_Positive(normals, face_centroids) ==
    OrientationSum(normals, face_centroids) > 0

inward_pointing_normals(normals, face_centroids) ==
    OrientationSum(normals, face_centroids) < 0

\* --------------------------------------------------------------- matmul
\* the innermost loop over k of matmul for result entry (r, c)
RECURSIVE MatmulEntry(_, _, _, _, _, _, _, _)
MatmulEntry(data1, stride1, data2, stride2, r, c, k, inner) ==
    IF k = inner THEN 0
    ELSE At(data1, r * stride1[1] + k * stride1[2])
         * At(data2, k * stride2[1] + c * stride2[2])
         + MatmulEntry(data1, stride1, data2, stride2, r, c, k + 1, inner)

\* matmul writing to a caller-supplied buffer; thrown = TRUE is the
\* std::invalid_argument exit
matmul(data1, r1, c1, transposed1, data2, r2, c2, transposed2, result, fac) ==
    LET dim1 == IF transposed1 THEN <<c1, r1>> ELSE <<r1, c1>>
        dim2 == IF transposed2 THEN <<c2, r2>> ELSE <<r2, c2>>
        stride1 == IF transposed1 THEN <<1, c1>> ELSE <<c1, 1>>
        stride2 == IF transposed2 THEN <<1, c2>> ELSE <<c2, 1>>
    IN IF dim1[2] # dim2[1] THEN [thrown |-> TRUE, result |-> result]
       ELSE LET num_elements == dim1[1] * dim2[2]
            IN [thrown |-> FALSE,
                result |-> [k \in 1..Len(result) |->
                    IF k <= num_elements
                    THEN fac * MatmulEntry(data1, stride1, data2, stride2,
                                           (k - 1) \div dim2[2],
                                           (k - 1) % dim2[2], 0, dim1[2])
                    ELSE result[k]]]

\* ---------------------------------------------------- 2D basis matrices
\* Corner coordinates are integers.  A value the code holds in a double is
\* held exactly: a scalar or point as num / den, a matrix as the integer
\* matrix m over the common denominator den.
RECURSIVE GCD(_, _)
GCD(x, y) == IF y = 0 THEN x ELSE GCD(y, x % y)

Abs(x) == IF x < 0 THEN -x ELSE x

\* centroid_2D: "fac" of edge i, the sums of the loop, "result /= 6 * area"
\* with 6 * area = 3 * (sum of fac)
EdgeFac(points, i) ==
    LET inext == (i + 1) % Len(points)
    IN At(points, i)[1] * At(points, inext)[2]
       - At(points, inext)[1] * At(points, i)[2]

centroid_2D(points) ==
    LET n == Len(points)
    IN [num |-> [d \in 1..2 |->
                   SumSeq([k \in 1..n |->
                      (At(points, k - 1)[d] + At(points, k % n)[d])
                      * EdgeFac(points, k - 1)])],
        den |-> 3 * SumSeq([k \in 1..n |-> EdgeFac(points, k - 1)])]

\* the coordinates, times 2 * center.den, of a point of the tessellation
\* of the cell
Coord2D(pt, points, center) ==
    IF pt[1] = "corner"
    THEN [d \in 1..2 |-> 2 * center.den * At(points, pt[2])[d]]
    ELSE IF pt[1] = "mid"
    THEN [d \in 1..2 |->
            center.den * (At(points, pt[2])[d] + At(points, pt[3])[d])]
    ELSE [d \in 1..2 |-> 2 * center.num[d]]

\* triarea<2>: Heron's formula yields the unsigned area, half the absolute
\* cross product; this is twice the area
triarea(c1, c2, c3) ==
    Abs((c2[1] - c1[1]) * (c3[2] - c1[2]) - (c2[2] - c1[2]) * (c3[1] - c1[1]))

\* element_volume_2D: face_integral_impl<2> without corner values, the sum
\* of triarea over the triangles of tessellate_face<2>(.., false)
element_volume_2D(points) ==
    LET n == Len(points)
        center == centroid_2D(points)
        tris == tessellate_face(pick_points(Iota(n), n), n, FALSE, FALSE).tris
    IN [num |-> SumSeq([k \in 1..Len(tris) |->
                   triarea(Coord2D(tris[k][1], points, center),
                           Coord2D(tris[k][2], points, center),
                           Coord2D(tris[k][3], points, center))]),
        den |-> 2 * (2 * center.den) * (2 * center.den)]

\* compute_q_2D: fac = 1 / (4 * area); corner i receives fac times the
\* scaled normal of the edges (i, i + 1) and (i - 1, i)
compute_q_2D(points) ==
    LET n == Len(points)
        area == element_volume_2D(points)
        g == GCD(area.den, 4 * area.num)
        scaled_normal(i) ==
            <<At(points, (i + 1) % n)[2] - At(points, i)[2],
              -(At(points, (i + 1) % n)[1] - At(points, i)[1])>>
    IN [m |-> [k \in 1..(2 * n) |->
                 LET i == (k - 1) \div 2
                     d == ((k - 1) % 2) + 1
                 IN (area.den \div g)
                    * (scaled_normal(i)[d]
                       + scaled_normal((i + n - 1) % n)[d])],
        den |-> (4 * area.num) \div g]

\* matentry_2D
matentry_2D(e1, e2, e3, e4) == <<e1, 0, e2, 0, e3, e4>>

\* n times the difference of corner i and point_average<2>(corners)
FromMidpoint(points, i, d) ==
    Len(points) * At(points, i)[d]
    - SumSeq([k \in 1..Len(points) |-> points[k][d]])

\* compute_Nr_2D
compute_Nr_2D(points) ==
    [m |-> Concat([k \in 1..Len(points) |->
              matentry_2D(Len(points), FromMidpoint(points, k - 1, 2),
                          Len(points), -FromMidpoint(points, k - 1, 1))]),
     den |-> Len(points)]

\* compute_Nc_2D
compute_Nc_2D(points) ==
    [m |-> Concat([k \in 1..Len(points) |->
              matentry_2D(FromMidpoint(points, k - 1, 1),
                          FromMidpoint(points, k - 1, 2),
                          FromMidpoint(points, k - 1, 2),
                          FromMidpoint(points, k - 1, 1))]),
     den |-> Len(points)]

\* compute_Wr_2D, over the denominator num_corners * q.den
compute_Wr_2D(q) ==
    LET num_corners == Len(q.m) \div 2
    IN [m |-> Concat([k \in 1..num_corners |->
                 matentry_2D(q.den, num_corners * At(q.m, 2 * (k - 1) + 1),
                             q.den, -(num_corners * At(q.m, 2 * (k - 1))))]),
        den |-> num_corners * q.den]

\* compute_Wc_2D, over the denominator num_corners * q.den
compute_Wc_2D(q) ==
    LET num_corners == Len(q.m) \div 2
    IN [m |-> Concat([k \in 1..num_corners |->
                 matentry_2D(2 * num_corners * At(q.m, 2 * (k - 1)),
                             num_corners * At(q.m, 2 * (k - 1) + 1),
                             2 * num_corners * At(q.m, 2 * (k - 1) + 1),
                             num_corners * At(q.m, 2 * (k - 1)))]),
        den |-> num_corners * q.den]

\* compute_ImP for dim = 2: I - (Pr + Pc) with Pr = Nr * Wr^T and
\* Pc = Nc * Wc^T, over the denominator Nr.den * Wr.den
compute_ImP(Nr, Nc, Wr, Wc, dim) ==
    LET N == Len(Nc.m) \div 6
        r == dim * N
        zero == [k \in 1..(r * r) |-> 0]
        Pr == matmul(Nr.m, r, 3, FALSE, Wr.m, r, 3, TRUE, zero, 1).result
        Pc == matmul(Nc.m, r, 3, FALSE, Wc.m, r, 3, TRUE, zero, 1).result
        den == Nr.den * Wr.den
    IN [m |-> [k \in 1..(r * r) |->
                 identity_matrix(den, N * dim)[k] - (Pr[k] + Pc[k])],
        den |-> den]

\* ------------------------------------------------- local stiffness matrix
\* a scalar num / den in lowest terms with a positive denominator
Quot(num, den) ==
    LET g == GCD(Abs(num), Abs(den))
        sgn == IF den < 0 THEN -1 ELSE 1
    IN [num |-> sgn * (num \div g), den |-> sgn * (den \div g)]

QuotMul(x, y) ==
    LET g1 == GCD(Abs(x.num), y.den)
        g2 == GCD(Abs(y.num), x.den)
    IN Quot((x.num \div g1) * (y.num \div g2), (x.den \div g2) * (y.den \div g1))

QuotAdd(x, y) ==
    LET g == GCD(x.den, y.den)
    IN Quot(x.num * (y.den \div g) + y.num * (x.den \div g),
            (x.den \div g) * y.den)

QuotInv(x) == Quot(x.den, x.num)

QuotLess(x, y) == x.num * y.den < y.num * x.den

\* the greatest common divisor of g and the elements lo..hi of s
RECURSIVE GcdRange(_, _, _)
GcdRange(s, lo, hi) ==
    IF lo > hi THEN 0
    ELSE IF lo = hi THEN Abs(s[lo])
    ELSE LET mid == (lo + hi) \div 2
         IN GCD(GcdRange(s, lo, mid), GcdRange(s, mid + 1, hi))

GcdSeq(s, g) == GCD(GcdRange(s, 1, Len(s)), g)

\* the elements of a vector, computed once
Stored(s) == SubSeq(s, 1, Len(s))

\* the matrix M in lowest terms
Lowest(M) ==
    LET g == GcdSeq(M.m, M.den)
    IN [m |-> Stored([k \in 1..Len(M.m) |-> M.m[k] \div g]),
        den |-> M.den \div g]

\* matmul returning a new vector, the product scaled by the scalar fac
MatProduct(M1, r1, c1, transposed1, M2, r2, c2, transposed2, fac) ==
    LET rows == IF transposed1 THEN c1 ELSE r1
        cols == IF transposed2 THEN r2 ELSE c2
        zero == [k \in 1..(rows * cols) |-> 0]
        prod == Lowest([m |-> Stored(matmul(M1.m, r1, c1, transposed1,
                                            M2.m, r2, c2, transposed2,
                                            zero, 1).result),
                        den |-> M1.den * M2.den])
        g == GCD(GcdSeq(prod.m, 0), fac.den)
    IN Lowest([m |-> [k \in 1..Len(prod.m) |-> (prod.m[k] \div g) * fac.num],
               den |-> prod.den * (fac.den \div g)])

\* entry-wise sum of two matrices of the same size
MatSum(M1, M2) ==
    LET g == GCD(M1.den, M2.den)
        f1 == M2.den \div g
        f2 == M1.den \div g
    IN Lowest([m |-> [k \in 1..Len(M1.m) |-> M1.m[k] * f1 + M2.m[k] * f2],
               den |-> f2 * M2.den])

\* Poisson's ratio is the fraction poisson.num / poisson.den, young an
\* integer
\* variant: the entry (0, 1) of D is doubled
compute_D_2D_Skewed(young, poisson) ==
    LET pn == poisson.num
        pd == poisson.den
    IN Lowest([m |-> [k \in 1..9 |->
                  young * pd * <<pd - pn, 2 * pn + 1, 0,
                                 pn, pd - pn, 0,
                                 0, 0, 2 * (pd - 2 * pn)>>[k]],
               den |-> (pd + pn) * (pd - 2 * pn)])

\* compute_D_2D: fac = young / (1 + poisson) / (1 - 2 * poisson) times the
\* matrix {1 - poisson, poisson, 0, poisson, 1 - poisson, 0, 0, 0,
\* 2 * (1 - 2 * poisson)}
compute_D_2D(young, poisson) ==
    LET pn == poisson.num
        pd == poisson.den
    IN Lowest([m |-> [k \in 1..9 |->
                  young * pd * <<pd - pn, pn, 0,
                                 pn, pd - pn, 0,
                                 0, 0, 2 * (pd - 2 * pn)>>[k]],
               den |-> (pd + pn) * (pd - 2 * pn)])

\* trace and invtrace of the N x N matrix M
RECURSIVE QuotSum(_)
QuotSum(xs) == IF xs = <<>> THEN [num |-> 0, den |-> 1]
               ELSE QuotAdd(Head(xs), QuotSum(Tail(xs)))

trace(M, N) == QuotSum([i \in 1..N |-> Quot(M.m[(i - 1) * N + i], M.den)])

invtrace(M, N) ==
    QuotSum([i \in 1..N |-> QuotInv(Quot(M.m[(i - 1) * N + i], M.den))])

\* compute_S with the values of its arguments: identity_matrix(alpha, r)
StabilityTerm(Nc, D, num_corners, volume, dim, stability_choice) ==
    LET r == dim * num_corners
        lsdim == IF dim = 2 THEN 3 ELSE 6
        NtN == MatProduct(Nc, r, lsdim, TRUE, Nc, r, lsdim, FALSE,
                          [num |-> 1, den |-> 1])
        alpha == IF stability_choice = "SIMPLE"
                 THEN QuotMul(QuotMul(volume, trace(D, lsdim)),
                              QuotInv(trace(NtN, lsdim)))
                 ELSE QuotMul(QuotMul([num |-> 1, den |-> 9], volume),
                              QuotMul(trace(D, lsdim), invtrace(NtN, lsdim)))
    IN [m |-> identity_matrix(alpha.num, r), den |-> alpha.den]

\* cbrt(volume), rounded down to a multiple of 1 / 10
cbrt(volume) ==
    LET k == CHOOSE k \in 0..40 :
                /\ k * k * k * volume.den <= 1000 * volume.num
                /\ (k + 1) * (k + 1) * (k + 1) * volume.den > 1000 * volume.num
    IN Quot(k, 10)

\* compute_S_D_recipe with the values of its arguments: the diagonal of
\* EWcDWct, bounded below by h = cbrt(volume)
StabilityTermRecipe(EWcDWct, dofs, volume) ==
    LET h == cbrt(volume)
        diagonal == [i \in 1..dofs |->
                       LET e == Quot(EWcDWct.m[(i - 1) * dofs + i], EWcDWct.den)
                       IN IF QuotLess(e, h) THEN h ELSE e]
        den == h.den * EWcDWct.den
    IN Lowest([m |-> [k \in 1..(dofs * dofs) |->
                        IF (k - 1) \div dofs = (k - 1) % dofs
                        THEN LET x == diagonal[((k - 1) \div dofs) + 1]
                             IN x.num * (den \div x.den)
                        ELSE 0],
               den |-> den])

\* final_assembly with the values of its arguments: the conformance term,
\* the stability matrix and the sum written to target
LocalStiffness(Wc, D, Nc, ImP, stability_choice, volume, num_nodes, dim) ==
    LET lsdim == IF dim = 2 THEN 3 ELSE 6
        totdim == dim * num_nodes
        one == [num |-> 1, den |-> 1]
        DWct == MatProduct(D, lsdim, lsdim, FALSE, Wc, totdim, lsdim, TRUE, one)
        EWcDWct == MatProduct(Wc, totdim, lsdim, FALSE,
                              DWct, lsdim, totdim, FALSE, volume)
        S == IF stability_choice = "D_RECIPE"
             THEN StabilityTermRecipe(EWcDWct, totdim, volume)
             ELSE StabilityTerm(Nc, D, num_nodes, volume, dim, stability_choice)
        SImP == MatProduct(S, totdim, totdim, FALSE,
                           ImP, totdim, totdim, FALSE, one)
        ImpSImp == MatProduct(ImP, totdim, totdim, TRUE,
                              SImP, totdim, totdim, FALSE, one)
    IN [EWcDWct |-> EWcDWct, S |-> S, target |-> MatSum(EWcDWct, ImpSImp)]

\* ------------------------------------------------------------ stress
\* matentry_3D
matentry_3D(e1, e2, e3, e4, e5, e6, e7, e8, e9) ==
    <<e1, 0, 0, e2, 0, e3, 0, e4, 0, e5, e6, 0, 0, 0, e7, 0, e8, e9>>

\* compute_Wc_3D
compute_Wc_3D(q) ==
    [m |-> Concat([k \in 1..(Len(q) \div 3) |->
              LET i == k - 1
              IN matentry_3D(2 * At(q, 3 * i), At(q, 3 * i + 1),
                             At(q, 3 * i + 2), 2 * At(q, 3 * i + 1),
                             At(q, 3 * i), At(q, 3 * i + 2),
                             2 * At(q, 3 * i + 2), At(q, 3 * i + 1),
                             At(q, 3 * i))]),
     den |-> 1]

\* compute_D_3D: fac = young / (1 + poisson) / (1 - 2 * poisson) times the
\* 6 x 6 matrix of 1 - poisson on the first three diagonal places, poisson
\* beside them and 2 * (1 - 2 * poisson) on the last three
compute_D_3D(young, poisson) ==
    LET pn == poisson.num
        pd == poisson.den
    IN Lowest([m |-> [k \in 1..36 |->
                  LET i == (k - 1) \div 6
                      j == (k - 1) % 6
                  IN young * pd *
                       (IF i < 3 /\ j < 3
                        THEN (IF i = j THEN pd - pn ELSE pn)
                        ELSE IF i = j THEN 2 * (pd - 2 * pn) ELSE 0)],
               den |-> (pd + pn) * (pd - 2 * pn)])

\* the lsdim x totdim matrix of calculate_stress_3D_local: D * Wc^T when
\* do_stress is set, and Wc^T otherwise
StressMatrix(Wc, D, totdim, do_stress) ==
    IF do_stress
    THEN MatProduct(D, 6, 6, FALSE, Wc, totdim, 6, TRUE, [num |-> 1, den |-> 1])
    ELSE [m |-> [k \in 1..(6 * totdim) |->
                   LET i == (k - 1) \div totdim
                       j == (k - 1) % totdim
                   IN At(Wc.m, j * 6 + i)],
          den |-> Wc.den]

\* "val /= 2" and "stress[i] /= 2" for a numerator over twice the
\* denominator of the matrix, which is even
Halved(x) == x \div 2

\* variant: the value of a triplet is never halved
StressTriplet_Whole(matrix, totdim, i, j, do_stress) ==
    2 * At(matrix.m, i * totdim + j)

\* the value of the triplet for matrix entry (i, j)
StressTriplet(matrix, totdim, i, j, do_stress) ==
    LET val == 2 * At(matrix.m, i * totdim + j)
    IN IF do_stress /\ i > 2 THEN Halved(val) ELSE val

\* calculate_stress_3D_local after the matrix is built: the loops that
\* fill local_disp and global_index, add to stress and append to
\* stressmat, and the final loop over the shear components
calculate_stress_3D_local(matrix, disp, indexing, cell, stress, stressmat, do_matrix, do_stress) ==
    LET totdim == 3 * Len(indexing)
        den == 2 * matrix.den
        global_index == [k \in 1..totdim |->
                            3 * At(indexing, (k - 1) \div 3) + ((k - 1) % 3)]
        local_disp == [k \in 1..totdim |-> At(disp, global_index[k])]
        summed == [k \in 1..6 |->
                     stress[k] * den
                     + SumSeq([j \in 1..totdim |->
                          2 * At(matrix.m, (k - 1) * totdim + (j - 1))
                            * local_disp[j]])]
        appended == [k \in 1..(6 * totdim) |->
                       LET i == (k - 1) \div totdim
                           j == (k - 1) % totdim
                       IN <<6 * cell + i, At(global_index, j),
                            StressTriplet(matrix, totdim, i, j, do_stress)>>]
    IN [stress |-> [k \in 1..6 |->
                      IF do_stress /\ k - 1 >= 3 THEN Halved(summed[k])
                      ELSE summed[k]],
        stressmat |-> [k \in 1..Len(stressmat) |->
                          <<Row(stressmat[k]), Col(stressmat[k]),
                            Val(stressmat[k]) * den>>]
                      \o (IF do_matrix THEN appended ELSE <<>>),
        den |-> den]

\* =========================================================== state machine
\* ---------------------------------------------------------- sparse2full
\* "const int ix = i * r + j" for the triplet t of sparse2full(nz, r, c)
Sparse2FullIx(t, r, cols) == Row(t) * r + Col(t)

VARIABLES
    call,              \* the entry point that is exercised
    pc,                \* position in that entry point
    mesh,              \* connectivity arrays of assemble_mech_system_2D/3D
    reduce_boundary,   \* argument reduce_boundary
    sort_variant,      \* order std::sort leaves equal columns in
    kseed,             \* selects the values of the local matrices
    body_force,        \* argument body_force
    neumann_faces,     \* argument neumann_faces
    neumann_forces,    \* argument neumann_forces
    fixed_dof_ixs,     \* argument fixed_dof_ixs, as read by the boundary pass
    fixed_dof_values,  \* argument fixed_dof_values
    A_entries,         \* the caller's triplet vector
    b,                 \* the caller's right-hand side vector
    ret,               \* value returned by the call, -1 before it returns
    twin,              \* A_entries, b, ret of a second call made with the
                       \* same arguments on vectors with other prior contents
    num_points,        \* local num_points
    c,                 \* cell loop counter
    corner_ixs,        \* 2D: offset of the current cell in cell_corners
    cf_ix,             \* 3D: index of the first face of the current cell
    fcorners_start,    \* 3D: offset of the current cell in face_corners
    passes,            \* boundary strategies invoked so far, in order
    stability_choice,  \* argument stability_choice
    stab,              \* per cell assembled so far: the function that built
                       \* its stability term S, the choice it was handed, S
    mm,                \* arguments and result buffer of a matmul call
    tess,              \* arguments and result of a tessellate_face call
    attr,              \* one face handed to a consumer of its tessellation,
                       \* and what the consumer wrote
    geo,               \* arguments, locals and outputs of a
                       \* compute_cell_geometry call
    g2l,               \* global_to_local_indexing: the caller's indexing
                       \* vector, the last argument and the returned map
    s2f,               \* sparse2full: arguments nz, r, c, the local result
                       \* and the number of triplets processed
    imp,               \* assemble_stiffness_matrix_2D: the cell's corners
                       \* and the locals q, Nr, Nc, Wr, Wc, ImP
    strs               \* calculate_stress_3D_local: its arguments, and
                       \* stress and stressmat as it leaves them

vars == <<call, pc, mesh, reduce_boundary, sort_variant, kseed, body_force,
          neumann_faces, neumann_forces, fixed_dof_ixs, fixed_dof_values,
          A_entries, b, ret, twin, num_points, c, corner_ixs, cf_ix,
          fcorners_start, passes, stability_choice, stab, mm, tess, attr,
          geo, g2l, s2f, imp, strs>>

\* the variables of the calls made on a single face or cell
unitVars == <<attr, geo, g2l, s2f, imp, strs>>

\* what the assembly has computed so far
asmState == <<fixed_dof_ixs, fixed_dof_values, A_entries, b, ret, twin,
              num_points, c, corner_ixs, cf_ix, fcorners_start, passes,
              stab>>

asmInputs == <<mesh, reduce_boundary, sort_variant, kseed, body_force,
               neumann_faces, neumann_forces, stability_choice>>

\* ------------------------------------------------------------------ inputs
Mesh2D(ncf, cc) ==
    [dim |-> 2, num_cell_faces |-> ncf, num_face_corners |-> <<>>,
     cell_corners |-> cc, face_corners |-> <<>>]

Mesh3D(ncf, nfc, fc) ==
    [dim |-> 3, num_cell_faces |-> ncf, num_face_corners |-> nfc,
     cell_corners |-> <<>>, face_corners |-> fc]

\* one triangle; two triangles sharing the edge 1-2; a triangle whose
\* corners are not listed in ascending order and skip point 2; a
\* tetrahedron whose first face does not start with its smallest point
Meshes ==
    { Mesh2D(<<3>>, <<0, 1, 2>>),
      Mesh2D(<<3, 3>>, <<0, 1, 2, 2, 1, 3>>),
      Mesh2D(<<3>>, <<0, 3, 1>>),
      Mesh3D(<<4>>, <<3, 3, 3, 3>>, <<1, 0, 2, 0, 1, 3, 1, 2, 3, 2, 0, 3>>) }

NoMesh == Mesh2D(<<>>, <<>>)

NumCells(m) == Len(m.num_cell_faces)

\* prior contents of the caller's vectors, first and second call
PriorA == << <<0, 0, 9>>, <<1, 0, 9>> >>
PriorB == [k \in 1..14 |-> 9]
PriorTwin == [A_entries |-> <<>>, b |-> <<7>>, ret |-> -1]

NoMatmul == [r1 |-> 0, c1 |-> 0, transposed1 |-> FALSE,
             r2 |-> 0, c2 |-> 0, transposed2 |-> FALSE,
             data1 |-> <<>>, data2 |-> <<>>, fac |-> 1,
             result |-> <<>>, thrown |-> FALSE]

NoTess == [num_corners |-> 0, skip_if_tri |-> FALSE, has_centroid |-> FALSE,
           corners |-> <<>>, tris |-> <<>>, centroid |-> <<"unwritten", 0, 0>>]

\* Dirichlet index arrays: every array of at most MaxFixed indices among the
\* first MaxFixDof dofs of the system, ascending or not, repeats included
FixedArrays(ndof) ==
    UNION { [1..n -> 0..(Min(MaxFixDof, ndof) - 1)] : n \in 0..MaxFixed }

\* the prescribed value of dof d
Prescribed(vbase, d) == vbase + d

InitAssemble ==
    /\ call = "assemble_mech_system"
    /\ mesh \in Meshes
    /\ reduce_boundary \in BOOLEAN
    /\ sort_variant \in {"stable", "reversed"}
    /\ kseed \in {0, 1}
    /\ \E body \in {0, 1} :
          body_force = [k \in 1..(mesh.dim * NumCells(mesh)) |-> body * k]
    /\ \E nn \in {0, 1} :
          /\ neumann_faces =
                IF nn = 0 THEN <<>>
                ELSE IF mesh.dim = 2
                     THEN <<mesh.cell_corners[1], mesh.cell_corners[2]>>
                     ELSE <<1>>
          /\ neumann_forces =
                IF nn = 0 THEN <<>>
                ELSE IF mesh.dim = 2 THEN <<1, 2>> ELSE <<1, 2, 3>>
    /\ A_entries = PriorA
    /\ b = PriorB
    /\ twin = PriorTwin
    /\ mm = NoMatmul
    /\ tess = NoTess

InitMatmul ==
    /\ call = "matmul"
    /\ \E r1 \in 1..MaxMatDim, c1 \in 1..MaxMatDim,
          r2 \in 1..MaxMatDim, c2 \in 1..MaxMatDim,
          t1 \in BOOLEAN, t2 \in BOOLEAN, fac \in {1, 3} :
          mm = [r1 |-> r1, c1 |-> c1, transposed1 |-> t1,
                r2 |-> r2, c2 |-> c2, transposed2 |-> t2,
                data1 |-> [k \in 1..(r1 * c1) |-> k],
                data2 |-> [k \in 1..(r2 * c2) |-> k + 2],
                fac |-> fac,
                result |-> [k \in 1..(MaxMatDim * MaxMatDim) |-> 7],
                thrown |-> FALSE]
    /\ mesh = NoMesh
    /\ reduce_boundary = FALSE
    /\ sort_variant = "stable"
    /\ kseed = 0
    /\ body_force = <<>>
    /\ neumann_faces = <<>>
    /\ neumann_forces = <<>>
    /\ A_entries = <<>>
    /\ b = <<>>
    /\ twin = [A_entries |-> <<>>, b |-> <<>>, ret |-> -1]
    /\ tess = NoTess

InitTessellate ==
    /\ call = "tessellate_face"
    /\ \E n \in 3..MaxCorners, skip \in BOOLEAN, hc \in BOOLEAN :
          tess = [num_corners |-> n, skip_if_tri |-> skip, has_centroid |-> hc,
                  corners |-> [k \in 1..n |-> CornerPt(k - 1)],
                  tris |-> <<>>, centroid |-> <<"unwritten", 0, 0>>]
    /\ mesh = NoMesh
    /\ reduce_boundary = FALSE
    /\ sort_variant = "stable"
    /\ kseed = 0
    /\ body_force = <<>>
    /\ neumann_faces = <<>>
    /\ neumann_forces = <<>>
    /\ A_entries = <<>>
    /\ b = <<>>
    /\ twin = [A_entries |-> <<>>, b |-> <<>>, ret |-> -1]
    /\ mm = NoMatmul

\* the formulas other than SIMPLE are selected for the systems without
\* loads, assembled with symmetric local matrices
PlainSystem ==
    /\ sort_variant = "stable"
    /\ kseed = 0
    /\ neumann_faces = <<>>
    /\ \A k \in 1..Len(body_force) : body_force[k] = 0

\* no assembly, matmul or tessellate_face call is made
NoAssembly ==
    /\ mesh = NoMesh
    /\ reduce_boundary = FALSE
    /\ sort_variant = "stable"
    /\ kseed = 0
    /\ body_force = <<>>
    /\ neumann_faces = <<>>
    /\ neumann_forces = <<>>
    /\ A_entries = <<>>
    /\ b = <<>>
    /\ twin = [A_entries |-> <<>>, b |-> <<>>, ret |-> -1]
    /\ mm = NoMatmul
    /\ tess = NoTess

\* the functions that attribute the triangles of a tessellated face to the
\* corners of the face
Consumers == {"face_integral_impl", "compute_bodyforce_2D",
              "compute_bodyforce_3D", "compute_applied_forces_3D"}

NoAttr == [face |-> <<>>, force |-> <<>>, out |-> <<>>, ntris |-> 0,
           centroid |-> <<"unwritten", 0, 0>>]

NoMatrix == [m |-> <<>>, den |-> 1]

NoImP == [corners |-> <<>>, q |-> NoMatrix, Nr |-> NoMatrix,
          Nc |-> NoMatrix, Wr |-> NoMatrix, Wc |-> NoMatrix,
          ImP |-> NoMatrix, young |-> 0,
          poisson |-> [num |-> 0, den |-> 1], choice |-> "SIMPLE",
          D |-> NoMatrix, S |-> NoMatrix, target |-> NoMatrix]

\* stress and the values of stressmat are numerators over den (stress_in
\* and stressmat_in over 1)
NoStress == [indexing |-> <<>>, cell |-> 0, q |-> <<>>, disp |-> <<>>,
             young |-> 0, poisson |-> [num |-> 0, den |-> 1],
             do_matrix |-> FALSE, do_stress |-> FALSE,
             stress_in |-> <<>>, stressmat_in |-> <<>>,
             stress |-> <<>>, stressmat |-> <<>>, den |-> 1]

NoS2F == [nz |-> <<>>, r |-> 0, c |-> 0, result |-> <<>>, done |-> 0]

NoG2L == [faces |-> <<>>, indexing |-> <<>>, previous |-> <<>>,
          reindex |-> << >>, calls |-> 0]

\* the face corner lists of the cells: a tetrahedron on the points 0..3, a
\* tetrahedron on the points 2, 4, 5, 7, a single triangle
CellFaceLists ==
    { <<1, 0, 2, 0, 1, 3, 1, 2, 3, 2, 0, 3>>,
      <<5, 2, 4, 2, 5, 7, 5, 4, 7, 4, 2, 7>>,
      <<6, 1, 3>> }

\* the unit normals and centroids compute_face_geometry can yield for a
\* face: a plane through 60 n or -60 n with normal n along the x or y axis
UnitNormals == {<<1, 0, 0>>, <<-1, 0, 0>>, <<0, 1, 0>>, <<0, -1, 0>>}

FacePlanes ==
    {[normal |-> n, centroid |-> [d \in 1..3 |-> s * 60 * n[d]]] :
        n \in UnitNormals, s \in {-1, 1}}

\* the loop state of identify_star_point before its first iteration
StarPointStart(point) ==
    [i |-> 0, count |-> 0, result |-> point, broke |-> FALSE, checked |-> <<>>]

NoGeo == [computed_normals |-> <<>>, computed_centroids |-> <<>>,
          mean_of_points |-> <<0, 0, 0>>,
          outward_normals |-> <<>>, face_centroids |-> <<>>,
          st |-> StarPointStart(<<0, 0, 0>>),
          star_point |-> <<0, 0, 0>>, cell_centroid |-> <<0, 0, 0>>,
          apex |-> <<0, 0, 0>>, bodyforce_apex |-> <<0, 0, 0>>]

\* a cell of N faces: the normal and centroid compute_face_geometry finds
\* for each face, and the average of the cell's points
InitGeometry ==
    /\ call = "compute_cell_geometry"
    /\ \E N \in 1..MaxFaces :
          \E fs \in [1..N -> FacePlanes],
             mean \in {<<0, 0, 0>>, <<90, -70, 0>>} :
             geo = [NoGeo EXCEPT
                      !.computed_normals = [k \in 1..N |-> fs[k].normal],
                      !.computed_centroids = [k \in 1..N |-> fs[k].centroid],
                      !.mean_of_points = mean]
    /\ NoAssembly
    /\ attr = NoAttr
    /\ g2l = NoG2L
    /\ s2f = NoS2F
    /\ imp = NoImP
    /\ strs = NoStress

\* the triplets (i, j, v) with 0 <= i < r and 0 <= j < cols; the k-th
\* triplet of a list has the value k
Sparse2FullLists(r, cols) ==
    UNION { { [k \in 1..n |-> <<ij[k][1], ij[k][2], k>>] :
                ij \in [1..n -> (0..(r - 1)) \X (0..(cols - 1))] } :
            n \in 0..2 }

\* sparse2full(nz, r, c) after "std::vector<double> result(r * c, 0)"
InitSparse2Full ==
    /\ call = "sparse2full"
    /\ \E r \in 1..MaxMatDim, cols \in 1..(MaxMatDim + 1) :
          \E nz \in Sparse2FullLists(r, cols) :
             s2f = [nz |-> nz, r |-> r, c |-> cols,
                    result |-> [k \in 1..(r * cols) |-> 0], done |-> 0]
    /\ NoAssembly
    /\ attr = NoAttr
    /\ geo = NoGeo
    /\ g2l = NoG2L
    /\ imp = NoImP
    /\ strs = NoStress

\* the cells of assemble_stiffness_matrix_2D, corners listed
\* counter-clockwise: a triangle, the unit square, a trapezoid, a
\* quadrilateral with a reflex corner at (1,1), and a square with a notch
\* that reaches from its upper side down to (2,1)
Cells2D ==
    { << <<0, 0>>, <<1, 0>>, <<0, 1>> >>,
      << <<0, 0>>, <<1, 0>>, <<1, 1>>, <<0, 1>> >>,
      << <<0, 0>>, <<2, 0>>, <<2, 1>>, <<0, 3>> >>,
      << <<0, 0>>, <<3, 0>>, <<1, 1>>, <<0, 3>> >>,
      << <<0, 0>>, <<4, 0>>, <<4, 4>>, <<2, 1>>, <<0, 4>> >> }

\* Young's modulus and Poisson's ratio of the cell
Materials ==
    { [young |-> 1, poisson |-> [num |-> 1, den |-> 4]],
      [young |-> 2, poisson |-> [num |-> 0, den |-> 1]] }

InitStiffness2D ==
    /\ call = "assemble_stiffness_matrix_2D"
    /\ \E corners \in Cells2D, material \in Materials,
          choice \in StabilityChoices :
          imp = [NoImP EXCEPT !.corners = corners,
                              !.young = material.young,
                              !.poisson = material.poisson,
                              !.choice = choice]
    /\ NoAssembly
    /\ attr = NoAttr
    /\ geo = NoGeo
    /\ g2l = NoG2L
    /\ s2f = NoS2F
    /\ strs = NoStress

\* the corners of a cell of four corners as indices of the global points,
\* the vector q of compute_q_3D for it and a displacement of the four
\* global points
StressCells == { <<0, 1, 2, 3>>, <<3, 1, 0, 2>> }

StressQ(seed) == [k \in 1..12 |-> ((seed + 2 * ((k - 1) \div 3) + k) % 3) - 1]

StressDisp(seed) == [k \in 1..12 |-> ((seed + 3 * k) % 4) - 1]

\* calculate_stress_3D_local for cell 0 or 1; stress holds zeros or the
\* value 1 in every component, stressmat is empty or holds a triplet of
\* the other cell
InitStress ==
    /\ call = "calculate_stress_3D_local"
    /\ \E indexing \in StressCells, cell \in 0..1, seed \in 0..1,
          material \in Materials, do_matrix \in BOOLEAN,
          do_stress \in BOOLEAN, before \in 0..1, filled \in BOOLEAN :
          strs = [NoStress EXCEPT
                    !.indexing = indexing, !.cell = cell,
                    !.q = StressQ(seed), !.disp = StressDisp(seed + cell),
                    !.young = material.young, !.poisson = material.poisson,
                    !.do_matrix = do_matrix, !.do_stress = do_stress,
                    !.stress_in = [i \in 1..6 |-> before],
                    !.stressmat_in =
                        IF filled THEN << <<6 * (1 - cell) + 3, 0, 4>> >>
                        ELSE <<>>]
    /\ NoAssembly
    /\ attr = NoAttr
    /\ geo = NoGeo
    /\ g2l = NoG2L
    /\ s2f = NoS2F
    /\ imp = NoImP

\* the caller's indexing vector is empty before the first cell
InitIndexing ==
    /\ call = "global_to_local_indexing"
    /\ g2l = NoG2L
    /\ NoAssembly
    /\ attr = NoAttr
    /\ geo = NoGeo
    /\ s2f = NoS2F
    /\ imp = NoImP
    /\ strs = NoStress

\* a face of n corners: the points 0..n-1 in ascending or descending order
InitConsumer ==
    /\ call \in Consumers
    /\ \E n \in 3..MaxCorners, descending \in BOOLEAN :
          attr = [face |-> [k \in 1..n |-> IF descending THEN n - k ELSE k - 1],
                  force |-> IF call = "compute_bodyforce_2D" THEN <<1, 2>>
                            ELSE <<1, 2, 3>>,
                  out |-> <<>>, ntris |-> 0,
                  centroid |-> <<"unwritten", 0, 0>>]
    /\ NoAssembly
    /\ geo = NoGeo
    /\ g2l = NoG2L
    /\ s2f = NoS2F
    /\ imp = NoImP
    /\ strs = NoStress

\* the faces compute_cell_geometry hands to compute_face_geometry and to
\* its volume loop
GeometryCallers == {"compute_face_geometry", "volume_loop"}

InitFaceOfCell ==
    /\ call \in GeometryCallers
    /\ \E n \in 3..MaxCorners, descending \in BOOLEAN :
          attr = [NoAttr EXCEPT
                    !.face = [k \in 1..n |-> IF descending THEN n - k ELSE k - 1]]
    /\ NoAssembly
    /\ geo = NoGeo
    /\ g2l = NoG2L
    /\ s2f = NoS2F
    /\ imp = NoImP
    /\ strs = NoStress

Init ==
    /\ pc = "entry"
    /\ fixed_dof_ixs = <<>>
    /\ fixed_dof_values = <<>>
    /\ ret = -1
    /\ num_points = 0
    /\ c = 0
    /\ corner_ixs = 0
    /\ cf_ix = 0
    /\ fcorners_start = 0
    /\ passes = <<>>
    /\ stab = <<>>
    /\ \/ /\ InitAssemble \/ InitMatmul \/ InitTessellate
          /\ attr = NoAttr
          /\ geo = NoGeo
          /\ g2l = NoG2L
          /\ s2f = NoS2F
          /\ imp = NoImP
          /\ strs = NoStress
       \/ InitConsumer
       \/ InitFaceOfCell
       \/ InitStress
       \/ InitGeometry
       \/ InitIndexing
       \/ InitSparse2Full
       \/ InitStiffness2D
    /\ stability_choice \in
          IF call = "assemble_mech_system" /\ PlainSystem
          THEN StabilityChoices ELSE {"SIMPLE"}

\* ----------------------------------------------------------------- steps
\* num_points of assemble_mech_system_2D/3D: largest referenced index + 1
NumPointsOf(m) ==
    IF m.dim = 2
    THEN LET tot_num_cell_faces == Accumulate(m.num_cell_faces, 0, NumCells(m))
         IN MaxSeq(SubSeq(m.cell_corners, 1, tot_num_cell_faces)) + 1
    ELSE LET tot_num_cell_faces == Accumulate(m.num_cell_faces, 0, NumCells(m))
             tot_num_face_corners ==
                 Accumulate(m.num_face_corners, 0, tot_num_cell_faces)
         IN MaxSeq(SubSeq(m.face_corners, 1, tot_num_face_corners)) + 1

\* b.resize(n) followed by std::fill(b.begin(), b.end(), 0)
ResizeAndFill(bb, n) ==
    LET resized == [k \in 1..n |-> IF k <= Len(bb) THEN bb[k] ELSE 0]
    IN [k \in 1..Len(resized) |-> 0]

\* variant: A_entries is not cleared
ClearSystem_KeepA(A, bb, m) ==
    [A_entries |-> A, b |-> ResizeAndFill(bb, NumPointsOf(m) * m.dim)]

\* A_entries.clear(); b.resize(Dim * num_points); fill(b, 0)
ClearSystem(A, bb, m) ==
    [A_entries |-> <<>>, b |-> ResizeAndFill(bb, NumPointsOf(m) * m.dim)]

\* the body of the cell loop of assemble_mech_system_2D for cell cell
CellStep2D(A, bb, m, cell, offset, seed, bforce) ==
    LET ncf == At(m.num_cell_faces, cell)
        corner_list == SubSeq(m.cell_corners, offset + 1, offset + ncf)
        loc == assemble_stiffness_matrix_2D(cell, corner_list, seed)
        zeroed == [k \in 1..(2 * ncf) |-> 0]
        load == compute_bodyforce_2D(corner_list, ncf,
                    SubSeq(bforce, 2 * cell + 1, 2 * cell + 2), zeroed)
    IN [A_entries |-> A \o ScatterTriplets(loc, corner_list, 2),
        b |-> AddLocalLoad(bb, load, corner_list, 2, 0)]

\* the body of the cell loop of assemble_mech_system_3D for cell cell
CellStep3D(A, bb, m, cell, first_face, offset, seed, bforce) ==
    LET nf == At(m.num_cell_faces, cell)
        nfc == SubSeq(m.num_face_corners, first_face + 1, first_face + nf)
        len == SumSeq(nfc)
        faces == SubSeq(m.face_corners, offset + 1, offset + len)
        st == assemble_stiffness_matrix_3D(cell, faces, seed)
        loc_indexing == st.indexing
    IN [A_entries |-> A \o ScatterTriplets(st.target, loc_indexing, 3),
        b |-> compute_bodyforce_3D(faces, nfc,
                  SubSeq(bforce, 3 * cell + 1, 3 * cell + 3), bb, 0, 0)]

\* the stability term of the cell: assemble_stiffness_matrix_2D hands the
\* caller's stability_choice and the cell's corner count to final_assembly
CellStability2D(m, cell, choice) ==
    final_assembly(choice, cell, At(m.num_cell_faces, cell), 2)

\* assemble_stiffness_matrix_3D: num_corners is the length of indexing
CellStability3D(m, cell, first_face, offset, choice) ==
    LET nf == At(m.num_cell_faces, cell)
        len == Accumulate(m.num_face_corners, first_face, first_face + nf)
        faces == SubSeq(m.face_corners, offset + 1, offset + len)
    IN final_assembly(choice, cell,
                      Len(global_to_local_indexing(faces).indexing), 3)

\* entry of assemble_mech_system_2D/3D up to the cell loop
EnterAssembly ==
    /\ call = "assemble_mech_system"
    /\ pc = "entry"
    /\ num_points' = NumPointsOf(mesh)
    /\ LET s1 == ClearSystem(A_entries, b, mesh)
           s2 == ClearSystem(twin.A_entries, twin.b, mesh)
       IN /\ A_entries' = s1.A_entries
          /\ b' = s1.b
          /\ twin' = [twin EXCEPT !.A_entries = s2.A_entries, !.b = s2.b]
    /\ pc' = "cells"
    /\ UNCHANGED <<unitVars, call, asmInputs, fixed_dof_ixs, fixed_dof_values, ret, c,
                   corner_ixs, cf_ix, fcorners_start, passes, stab, mm, tess>>

\* one iteration of the cell loop of assemble_mech_system_2D
AssembleCell2D ==
    /\ call = "assemble_mech_system"
    /\ pc = "cells"
    /\ mesh.dim = 2
    /\ c # NumCells(mesh)
    /\ LET s1 == CellStep2D(A_entries, b, mesh, c, corner_ixs, kseed, body_force)
           s2 == CellStep2D(twin.A_entries, twin.b, mesh, c, corner_ixs, kseed,
                            body_force)
       IN /\ A_entries' = s1.A_entries
          /\ b' = s1.b
          /\ twin' = [twin EXCEPT !.A_entries = s2.A_entries, !.b = s2.b]
    /\ stab' = Append(stab, CellStability2D(mesh, c, stability_choice))
    /\ corner_ixs' = corner_ixs + At(mesh.num_cell_faces, c)
    /\ c' = c + 1
    /\ UNCHANGED <<unitVars, call, pc, asmInputs, fixed_dof_ixs, fixed_dof_values, ret,
                   num_points, cf_ix, fcorners_start, passes, mm, tess>>

\* one iteration of the cell loop of assemble_mech_system_3D
AssembleCell3D ==
    /\ call = "assemble_mech_system"
    /\ pc = "cells"
    /\ mesh.dim = 3
    /\ c # NumCells(mesh)
    /\ LET s1 == CellStep3D(A_entries, b, mesh, c, cf_ix, fcorners_start, kseed,
                            body_force)
           s2 == CellStep3D(twin.A_entries, twin.b, mesh, c, cf_ix,
                            fcorners_start, kseed, body_force)
       IN /\ A_entries' = s1.A_entries
          /\ b' = s1.b
          /\ twin' = [twin EXCEPT !.A_entries = s2.A_entries, !.b = s2.b]
    /\ stab' = Append(stab, CellStability3D(mesh, c, cf_ix, fcorners_start,
                                            stability_choice))
    /\ fcorners_start' = fcorners_start
          + Accumulate(mesh.num_face_corners, cf_ix,
                       cf_ix + At(mesh.num_cell_faces, c))
    /\ cf_ix' = cf_ix + At(mesh.num_cell_faces, c)
    /\ c' = c + 1
    /\ UNCHANGED <<unitVars, call, pc, asmInputs, fixed_dof_ixs, fixed_dof_values, ret,
                   num_points, corner_ixs, passes, mm, tess>>

\* compute_cell_geometry of the current 3D cell does not return: the star
\* point search throws or the orientation assertion fails.  Whether it does
\* depends on the point coordinates, so either outcome is possible.
CellGeometryFails ==
    /\ call = "assemble_mech_system"
    /\ pc = "cells"
    /\ mesh.dim = 3
    /\ c # NumCells(mesh)
    /\ pc' = "aborted"
    /\ UNCHANGED <<unitVars, call, asmInputs, fixed_dof_ixs, fixed_dof_values, A_entries,
                   b, ret, twin, num_points, c, corner_ixs, cf_ix,
                   fcorners_start, passes, stab, mm, tess>>

\* the Neumann loop of assemble_mech_system_2D
ApplyForces2D ==
    /\ call = "assemble_mech_system"
    /\ pc = "cells"
    /\ mesh.dim = 2
    /\ c = NumCells(mesh)
    /\ b' = ApplyNeumann2D(b, neumann_faces, neumann_forces, 0)
    /\ twin' = [twin EXCEPT
                  !.b = ApplyNeumann2D(twin.b, neumann_faces, neumann_forces, 0)]
    /\ pc' = "bc"
    /\ UNCHANGED <<unitVars, call, asmInputs, fixed_dof_ixs, fixed_dof_values, A_entries,
                   ret, num_points, c, corner_ixs, cf_ix, fcorners_start,
                   passes, stab, mm, tess>>

\* the call of compute_applied_forces_3D in assemble_mech_system_3D
ApplyForces3D ==
    /\ call = "assemble_mech_system"
    /\ pc = "cells"
    /\ mesh.dim = 3
    /\ c = NumCells(mesh)
    /\ b' = compute_applied_forces_3D(mesh.num_face_corners, mesh.face_corners,
                                      neumann_faces, neumann_forces, b, 0)
    /\ twin' = [twin EXCEPT
                  !.b = compute_applied_forces_3D(mesh.num_face_corners,
                            mesh.face_corners, neumann_faces, neumann_forces,
                            twin.b, 0)]
    /\ pc' = "bc"
    /\ UNCHANGED <<unitVars, call, asmInputs, fixed_dof_ixs, fixed_dof_values, A_entries,
                   ret, num_points, c, corner_ixs, cf_ix, fcorners_start,
                   passes, stab, mm, tess>>

\* the boundary pass and the return statement: pass is reduce_system or
\* set_boundary_conditions applied to the vectors of both calls
BoundaryPass(name, ixs, vals) ==
    LET r1 == IF name = "reduce_system"
              THEN reduce_system(A_entries, b, ixs, vals, sort_variant)
              ELSE set_boundary_conditions(A_entries, b, ixs, vals, sort_variant)
        r2 == IF name = "reduce_system"
              THEN reduce_system(twin.A_entries, twin.b, ixs, vals, sort_variant)
              ELSE set_boundary_conditions(twin.A_entries, twin.b, ixs, vals,
                                           sort_variant)
    IN /\ fixed_dof_ixs' = ixs
       /\ fixed_dof_values' = vals
       /\ passes' = Append(passes, name)
       /\ A_entries' = r1.A
       /\ b' = r1.b
       /\ IF r1.thrown
          THEN /\ pc' = "failed"
               /\ ret' = ret
               /\ twin' = [twin EXCEPT !.A_entries = r2.A, !.b = r2.b]
          ELSE /\ pc' = "done"
               /\ ret' = Len(r1.b)
               /\ twin' = [A_entries |-> r2.A, b |-> r2.b, ret |-> Len(r2.b)]
       /\ UNCHANGED <<unitVars, call, asmInputs, num_points, c, corner_ixs, cf_ix,
                      fcorners_start, stab, mm, tess>>

\* variant: the reduction is applied inside the cell loop
ReducePass_InLoop ==
    /\ call = "assemble_mech_system"
    /\ pc \in {"cells", "bc"}
    /\ reduce_boundary
    /\ \E ixs \in FixedArrays(Len(b)), vbase \in 1..MaxFixVal :
          BoundaryPass("reduce_system", ixs,
                       [k \in 1..Len(ixs) |-> Prescribed(vbase, ixs[k])])

\* "if (reduce_boundary) reduce_system(...)" and "return b.size()"
ReducePass ==
    /\ call = "assemble_mech_system"
    /\ pc = "bc"
    /\ reduce_boundary
    /\ \E ixs \in FixedArrays(Len(b)), vbase \in 1..MaxFixVal :
          BoundaryPass("reduce_system", ixs,
                       [k \in 1..Len(ixs) |-> Prescribed(vbase, ixs[k])])

\* "else set_boundary_conditions(...)" and "return b.size()"
PenaltyPass ==
    /\ call = "assemble_mech_system"
    /\ pc = "bc"
    /\ ~reduce_boundary
    /\ \E ixs \in FixedArrays(Len(b)), vbase \in 1..MaxFixVal :
          BoundaryPass("set_boundary_conditions", ixs,
                       [k \in 1..Len(ixs) |-> Prescribed(vbase, ixs[k])])

\* a call of matmul on the caller's result buffer
Matmul ==
    /\ call = "matmul"
    /\ pc = "entry"
    /\ LET r == matmul(mm.data1, mm.r1, mm.c1, mm.transposed1,
                       mm.data2, mm.r2, mm.c2, mm.transposed2,
                       mm.result, mm.fac)
       IN /\ mm' = [mm EXCEPT !.result = r.result, !.thrown = r.thrown]
          /\ pc' = IF r.thrown THEN "failed" ELSE "done"
    /\ UNCHANGED <<unitVars, call, asmInputs, fixed_dof_ixs, fixed_dof_values, A_entries,
                   b, ret, twin, num_points, c, corner_ixs, cf_ix,
                   fcorners_start, passes, stab, tess>>

\* a call of tessellate_face
TessellateFace ==
    /\ call = "tessellate_face"
    /\ pc = "entry"
    /\ LET r == tessellate_face(tess.corners, tess.num_corners,
                                tess.skip_if_tri, tess.has_centroid)
       IN tess' = [tess EXCEPT !.tris = r.tris, !.centroid = r.centroid]
    /\ pc' = "done"
    /\ UNCHANGED <<unitVars, call, asmInputs, fixed_dof_ixs, fixed_dof_values, A_entries,
                   b, ret, twin, num_points, c, corner_ixs, cf_ix,
                   fcorners_start, passes, stab, mm>>

\* a call of one of the consumers on a single face (a 2D cell for
\* compute_bodyforce_2D, the only face of the mesh and the only Neumann
\* face for the 3D functions), its output vector being zero before.  With
\* a tessellation that has not 2n triangles the assertion on its size fails
\* (compute_applied_forces_3D, which has none, reads behind its end).
ConsumeFace ==
    /\ call \in Consumers
    /\ pc = "entry"
    /\ LET n == Len(attr.face)
           zero2 == [k \in 1..(2 * n) |-> 0]
           zero3 == [k \in 1..(3 * n) |-> 0]
           out == CASE call = "face_integral_impl" -> BasisIntegrals(attr.face)
                    [] call = "compute_bodyforce_2D" ->
                         compute_bodyforce_2D(attr.face, n, attr.force, zero2)
                    [] call = "compute_bodyforce_3D" ->
                         compute_bodyforce_3D(attr.face, <<n>>, attr.force,
                                              zero3, 0, 0)
                    [] call = "compute_applied_forces_3D" ->
                         compute_applied_forces_3D(<<n>>, attr.face, <<0>>,
                                                   attr.force, zero3, 0)
           tris == tessellate_face(pick_points(attr.face, n), n,
                                   skip_if_tri_of(call), FALSE).tris
       IN IF Len(tris) = 2 * n
          THEN /\ attr' = [attr EXCEPT !.out = out, !.ntris = Len(tris)]
               /\ pc' = "done"
          ELSE /\ attr' = [attr EXCEPT !.ntris = Len(tris)]
               /\ pc' = "aborted"
    /\ UNCHANGED <<call, asmInputs, asmState, mm, tess, geo, g2l, s2f, imp, strs>>

\* compute_face_geometry: the tessellation and the centroid it leaves at
\* the caller's location; out is the sum over the triangles
ComputeFaceGeometry ==
    /\ call = "compute_face_geometry"
    /\ pc = "entry"
    /\ LET n == Len(attr.face)
           r == tessellate_face(pick_points(attr.face, n), n,
                                skip_if_tri_of(call), TRUE)
       IN attr' = [attr EXCEPT
                     !.ntris = Len(r.tris),
                     !.centroid = r.centroid,
                     !.out = <<SumSeq([k \in 1..Len(r.tris) |-> Measure(r.tris[k])])>>]
    /\ pc' = "done"
    /\ UNCHANGED <<call, asmInputs, asmState, mm, tess, geo, g2l, s2f, imp, strs>>

\* the volume loop of compute_cell_geometry for one face: a tetrahedron for
\* every triangle of the tessellation
VolumeLoop ==
    /\ call = "volume_loop"
    /\ pc = "entry"
    /\ LET n == Len(attr.face)
           tris == tessellate_face(pick_points(attr.face, n), n,
                                   skip_if_tri_of(call), FALSE).tris
       IN attr' = [attr EXCEPT
                     !.ntris = Len(tris),
                     !.out = <<SumSeq([k \in 1..Len(tris) |-> Measure(tris[k])])>>]
    /\ pc' = "done"
    /\ UNCHANGED <<call, asmInputs, asmState, mm, tess, geo, g2l, s2f, imp, strs>>

\* compute_cell_geometry, the loop over the faces that fills
\* outward_normals and face_centroids
FaceGeometry ==
    /\ call = "compute_cell_geometry"
    /\ pc = "entry"
    /\ geo' = [geo EXCEPT !.outward_normals = geo.computed_normals,
                          !.face_centroids = geo.computed_centroids]
    /\ pc' = "orient"
    /\ UNCHANGED <<call, asmInputs, asmState, mm, tess, attr, g2l, s2f, imp, strs>>

\* "if (inward_pointing_normals(...)) assert(false)" in a build with
\* assertions: the program is aborted
OrientationAbort ==
    /\ call = "compute_cell_geometry"
    /\ pc = "orient"
    /\ inward_pointing_normals(geo.outward_normals, geo.face_centroids)
    /\ pc' = "aborted"
    /\ UNCHANGED <<call, asmInputs, asmState, mm, tess, attr, geo, g2l, s2f, imp,
                 strs>>

\* the same statement when the normals are not inward-pointing, or in a
\* build with NDEBUG, where assert(false) is no statement at all; control
\* reaches the call of identify_star_point
OrientationPass ==
    /\ call = "compute_cell_geometry"
    /\ pc = "orient"
    /\ geo' = [geo EXCEPT !.st = StarPointStart(geo.mean_of_points)]
    /\ pc' = "star"
    /\ UNCHANGED <<call, asmInputs, asmState, mm, tess, attr, g2l, s2f, imp, strs>>

\* one iteration of the loop of identify_star_point
StarPointIteration ==
    /\ call = "compute_cell_geometry"
    /\ pc = "star"
    /\ ~geo.st.broke
    /\ geo.st.i # MaxIter(Len(geo.outward_normals))
    /\ geo' = [geo EXCEPT !.st = StarPointStep(geo.st, geo.outward_normals,
                                                geo.face_centroids)]
    /\ UNCHANGED <<call, pc, asmInputs, asmState, mm, tess, attr, g2l, s2f, imp,
                 strs>>

\* identify_star_point after its loop: "if (count != N) throw", else the
\* point is returned and assigned to star_point
StarPointExit ==
    /\ call = "compute_cell_geometry"
    /\ pc = "star"
    /\ geo.st.broke \/ geo.st.i = MaxIter(Len(geo.outward_normals))
    /\ IF geo.st.count # Len(geo.outward_normals)
       THEN /\ pc' = "failed"
            /\ geo' = geo
       ELSE /\ pc' = "volume"
            /\ geo' = [geo EXCEPT !.star_point = geo.st.result]
    /\ UNCHANGED <<call, asmInputs, asmState, mm, tess, attr, g2l, s2f, imp, strs>>

\* the volume and centroid loop and the final test of the cell centroid.
\* The centroid depends on the corner coordinates; it is one of two points,
\* the origin or a point far from it.  apex is the point the tetrahedra of
\* the loop were completed with.
CellCentroid ==
    /\ call = "compute_cell_geometry"
    /\ pc = "volume"
    /\ \E centroid \in {<<0, 0, 0>>, <<200, 0, 0>>} :
          geo' = [geo EXCEPT
                    !.apex = geo.star_point,
                    !.cell_centroid = centroid,
                    !.star_point =
                        FinalStarPoint(centroid, geo.star_point,
                                       geo.outward_normals,
                                       geo.face_centroids)]
    /\ pc' = "done"
    /\ UNCHANGED <<call, asmInputs, asmState, mm, tess, attr, g2l, s2f, imp, strs>>

\* the cell loop of assemble_mech_system_3D after
\* assemble_stiffness_matrix_3D has returned: compute_bodyforce_3D is given
\* the output 'centroid' of compute_cell_geometry as the fourth point of its
\* tetrahedra
BodyForceApex ==
    /\ call = "compute_cell_geometry"
    /\ pc = "done"
    /\ geo' = [geo EXCEPT !.bodyforce_apex = geo.cell_centroid]
    /\ pc' = "bodyforce"
    /\ UNCHANGED <<call, asmInputs, asmState, mm, tess, attr, g2l, s2f, imp, strs>>

\* global_to_local_indexing for the next cell, as the cell loop of
\* assemble_mech_system_3D calls it: with the same indexing vector
IndexCell ==
    /\ call = "global_to_local_indexing"
    /\ pc = "entry"
    /\ g2l.calls < MaxCalls
    /\ \E faces \in CellFaceLists :
          LET indexing == AssignIndexing(g2l.indexing, UniqueElements(faces))
          IN g2l' = [faces |-> faces,
                     indexing |-> indexing,
                     previous |-> g2l.indexing,
                     reindex |-> Reindex(indexing),
                     calls |-> g2l.calls + 1]
    /\ pc' = IF g2l.calls + 1 = MaxCalls THEN "done" ELSE "entry"
    /\ UNCHANGED <<call, asmInputs, asmState, mm, tess, attr, geo, s2f, imp, strs>>

\* one iteration of the loop of sparse2full with ix inside the buffer
Sparse2FullAdd ==
    /\ call = "sparse2full"
    /\ pc = "entry"
    /\ s2f.done < Len(s2f.nz)
    /\ LET t == s2f.nz[s2f.done + 1]
           ix == Sparse2FullIx(t, s2f.r, s2f.c)
       IN /\ ix < Len(s2f.result)
          /\ s2f' = [s2f EXCEPT !.result[ix + 1] = @ + Val(t),
                                !.done = @ + 1]
    /\ UNCHANGED <<call, pc, asmInputs, asmState, mm, tess, attr, geo, g2l, imp,
                 strs>>

\* ix is not inside the buffer and "assert(ix < result.size())" is compiled
\* in, or the write behind the buffer ends the process
Sparse2FullAbort ==
    /\ call = "sparse2full"
    /\ pc = "entry"
    /\ s2f.done < Len(s2f.nz)
    /\ Sparse2FullIx(s2f.nz[s2f.done + 1], s2f.r, s2f.c) >= Len(s2f.result)
    /\ pc' = "aborted"
    /\ UNCHANGED <<call, asmInputs, asmState, mm, tess, attr, geo, g2l, s2f, imp,
                 strs>>

\* ix is not inside the buffer and the assertion is compiled out: the
\* value is added to memory behind the buffer, whose elements keep theirs
Sparse2FullOverrun ==
    /\ call = "sparse2full"
    /\ pc = "entry"
    /\ s2f.done < Len(s2f.nz)
    /\ Sparse2FullIx(s2f.nz[s2f.done + 1], s2f.r, s2f.c) >= Len(s2f.result)
    /\ s2f' = [s2f EXCEPT !.done = @ + 1]
    /\ UNCHANGED <<call, pc, asmInputs, asmState, mm, tess, attr, geo, g2l, imp,
                 strs>>

\* "return result"
Sparse2FullReturn ==
    /\ call = "sparse2full"
    /\ pc = "entry"
    /\ s2f.done = Len(s2f.nz)
    /\ pc' = "done"
    /\ UNCHANGED <<call, asmInputs, asmState, mm, tess, attr, geo, g2l, s2f, imp,
                 strs>>

\* assemble_stiffness_matrix_2D: "compute all intermediary matrices" up to
\* Wc
BasisMatrices2D ==
    /\ call = "assemble_stiffness_matrix_2D"
    /\ pc = "entry"
    /\ \E q \in {compute_q_2D(imp.corners)} :
          imp' = [imp EXCEPT !.q = q,
                             !.Nr = compute_Nr_2D(imp.corners),
                             !.Nc = compute_Nc_2D(imp.corners),
                             !.Wr = compute_Wr_2D(q),
                             !.Wc = compute_Wc_2D(q),
                             !.D = compute_D_2D(imp.young, imp.poisson)]
    /\ pc' = "basis"
    /\ UNCHANGED <<call, asmInputs, asmState, mm, tess, attr, geo, g2l, s2f, strs>>

\* "const auto ImP = compute_ImP(Nr, Nc, Wr, Wc, 2)"
ComputeImP ==
    /\ call = "assemble_stiffness_matrix_2D"
    /\ pc = "basis"
    /\ imp' = [imp EXCEPT
                 !.ImP = compute_ImP(imp.Nr, imp.Nc, imp.Wr, imp.Wc, 2)]
    /\ pc' = "done"
    /\ UNCHANGED <<call, asmInputs, asmState, mm, tess, attr, geo, g2l, s2f, strs>>

\* "final_assembly(Wc, D, Nc, ImP, stability_choice, area, num_corners, 2,
\* &target[0])"
FinalAssembly ==
    /\ call = "assemble_stiffness_matrix_2D"
    /\ pc = "done"
    /\ \E K \in {LocalStiffness(Lowest(imp.Wc), imp.D, Lowest(imp.Nc),
                                 Lowest(imp.ImP), imp.choice,
                                 Quot(element_volume_2D(imp.corners).num,
                                      element_volume_2D(imp.corners).den),
                                 Len(imp.corners), 2)} :
          imp' = [imp EXCEPT !.S = K.S, !.target = K.target]
    /\ pc' = "assembled"
    /\ UNCHANGED <<call, asmInputs, asmState, mm, tess, attr, geo, g2l, s2f, strs>>

\* a call of calculate_stress_3D_local
StressLocal ==
    /\ call = "calculate_stress_3D_local"
    /\ pc = "entry"
    /\ \E matrix \in {StressMatrix(compute_Wc_3D(strs.q),
                                    compute_D_3D(strs.young, strs.poisson),
                                    3 * Len(strs.indexing), strs.do_stress)} :
          \E K \in {calculate_stress_3D_local(matrix, strs.disp, strs.indexing,
                                               strs.cell, strs.stress_in,
                                               strs.stressmat_in,
                                               strs.do_matrix, strs.do_stress)} :
             strs' = [strs EXCEPT !.stress = K.stress,
                                  !.stressmat = K.stressmat, !.den = K.den]
    /\ pc' = "done"
    /\ UNCHANGED <<call, asmInputs, asmState, mm, tess, attr, geo, g2l, s2f, imp>>

Next ==
    \/ ConsumeFace
    \/ ComputeFaceGeometry
    \/ VolumeLoop
    \/ BasisMatrices2D
    \/ ComputeImP
    \/ FinalAssembly
    \/ StressLocal
    \/ Sparse2FullAdd
    \/ Sparse2FullAbort
    \/ Sparse2FullOverrun
    \/ Sparse2FullReturn
    \/ IndexCell
    \/ FaceGeometry
    \/ OrientationAbort
    \/ OrientationPass
    \/ StarPointIteration
    \/ StarPointExit
    \/ CellCentroid
    \/ BodyForceApex
    \/ EnterAssembly
    \/ AssembleCell2D
    \/ AssembleCell3D
    \/ CellGeometryFails
    \/ ApplyForces2D
    \/ ApplyForces3D
    \/ ReducePass
    \/ PenaltyPass
    \/ Matmul
    \/ TessellateFace

Spec == Init /\ [][Next]_vars

\* ------------------------------------------------------------- type check
TypeOK ==
    /\ call \in {"assemble_mech_system", "matmul", "tessellate_face"}
                \cup Consumers \cup GeometryCallers
                \cup {"compute_cell_geometry", "global_to_local_indexing",
                      "sparse2full", "assemble_stiffness_matrix_2D",
                      "calculate_stress_3D_local"}
    /\ pc \in {"entry", "cells", "bc", "done", "failed", "aborted",
              "orient", "star", "volume", "basis", "bodyforce",
              "assembled"}
    /\ ret \in Int
    /\ Len(passes) <= 1

\* =================================================================== claims
\* vocabulary of the claims
PassReturned == call = "assemble_mech_system" /\ pc = "done"
PenaltyReturned == PassReturned /\ passes = <<"set_boundary_conditions">>
ReduceReturned == PassReturned /\ passes = <<"reduce_system">>

\* a boundary pass step that returns normally
PassStep == call = "assemble_mech_system" /\ pc = "bc" /\ pc' = "done"

FixedSet(ixs) == {ixs[k] : k \in 1..Len(ixs)}
Ascending(ixs) == \A i \in 1..Len(ixs), j \in 1..Len(ixs) : i < j => ixs[i] <= ixs[j]

\* the prescribed value of the fixed dof d
ValueOf(ixs, vals, d) == vals[CHOOSE k \in 1..Len(ixs) : ixs[k] = d]

\* number of non-fixed dofs smaller than k
Renum(F, k) == Cardinality({j \in 0..(k - 1) : j \notin F})

CountOf(s, t) == Cardinality({k \in 1..Len(s) : s[k] = t})
ColumnOf(A, col) == SelectSeq(A, LAMBDA t : Col(t) = col)
RowOf(A, r) == SelectSeq(A, LAMBDA t : Row(t) = r)

\* s1 and s2 hold the same triplets with the same multiplicities (compared
\* column by column)
SameBag(s1, s2) ==
    /\ Len(s1) = Len(s2)
    /\ \A col \in ColumnsOf(s1) \cup ColumnsOf(s2) :
          LET g1 == ColumnOf(s1, col)
              g2 == ColumnOf(s2, col)
          IN /\ Len(g1) = Len(g2)
             /\ \A k \in 1..Len(g1) : CountOf(g1, g1[k]) = CountOf(g2, g1[k])

\* sum of v * (prescribed value of d) over the triplets (r, d, v) of A whose
\* column d is fixed
FixedColumnSum(A, r, ixs, vals) ==
    LET hits == SelectSeq(A, LAMBDA t : Row(t) = r /\ Col(t) \in FixedSet(ixs))
    IN SumSeq([k \in 1..Len(hits) |->
                  Val(hits[k]) * ValueOf(ixs, vals, Col(hits[k]))])

\* C1: after set_boundary_conditions, for every fixed dof d the summed
\* matrix has 1 at (d,d), 0 elsewhere in row d and column d, and b[d] is the
\* prescribed value of d, for any assembled triplet list, also when several
\* cells contributed a triplet at (d,d).
C1_TrivialEquation ==
    PenaltyReturned =>
        \A d \in FixedSet(fixed_dof_ixs) :
            /\ SumAt(A_entries, d, d) = 1
            /\ \A k \in 0..(Len(b) - 1) :
                  k # d => SumAt(A_entries, d, k) = 0 /\ SumAt(A_entries, k, d) = 0
            /\ At(b, d) = ValueOf(fixed_dof_ixs, fixed_dof_values, d)

\* C2: after reduce_system with an ascending list F, the triplet list is
\* the multiset of the input triplets with row and column outside F, values
\* unchanged, every index k replaced by the number of non-fixed dofs smaller
\* than k; every remaining index lies in 0..(number of free dofs)-1.
C2_Expected(A, F) ==
    LET kept == SelectSeq(A, LAMBDA t : Row(t) \notin F /\ Col(t) \notin F)
    IN [k \in 1..Len(kept) |->
          <<Renum(F, Row(kept[k])), Renum(F, Col(kept[k])), Val(kept[k])>>]

C2_ReduceRenumbers ==
    [][(PassStep /\ reduce_boundary) =>
          LET F == FixedSet(fixed_dof_ixs')
              nfree == Cardinality((0..(Len(b) - 1)) \ F)
          IN /\ \A expected \in {C2_Expected(A_entries, F)} :
                   SameBag(A_entries', expected)
             /\ \A k \in 1..Len(A_entries') :
                   /\ Row(A_entries'[k]) \in 0..(nfree - 1)
                   /\ Col(A_entries'[k]) \in 0..(nfree - 1)]_vars

\* a reduction that removed a fixed dof below a free one took place
C2_Witness ==
    /\ ReduceReturned
    /\ fixed_dof_ixs = <<0, 2>>
    /\ A_entries # <<>>

\* C3: for both strategies and every free dof r, the resulting entry of the
\* right-hand side (position renum(r) under reduction, r under penalty) is
\* the assembled b[r] minus the sum over the input triplets (r,d,v) with
\* fixed column d of v times the prescribed value of d.
C3_RhsMoved ==
    [][PassStep =>
          LET F == FixedSet(fixed_dof_ixs')
          IN \A r \in (0..(Len(b) - 1)) \ F :
                At(b', IF reduce_boundary THEN Renum(F, r) ELSE r)
                  = At(b, r) - FixedColumnSum(A_entries, r, fixed_dof_ixs',
                                              fixed_dof_values')]_vars

\* a pass moved the contributions of two triplets at the same position
\* (row 0, fixed column 2 of the two-triangle mesh) to the right-hand side
C3_Witness ==
    /\ PassReturned
    /\ NumCells(mesh) = 2
    /\ fixed_dof_ixs = <<2, 3>>

\* C4: for the same assembled system and the same ascending Dirichlet data
\* the reduced system equals the penalty system restricted to the free
\* dofs, the penalty matrix does not couple free and fixed dofs, and the
\* right-hand sides agree at the free dofs.
C4_Agree(red, pen, F, n) ==
    /\ \A r \in (0..(n - 1)) \ F :
          LET redRow == RowOf(red.A, Renum(F, r))
              penRow == RowOf(pen.A, r)
          IN /\ \A k \in (0..(n - 1)) \ F :
                   SumAt(redRow, Renum(F, r), Renum(F, k)) = SumAt(penRow, r, k)
             /\ \A d \in F : SumAt(penRow, r, d) = 0 /\ SumAt(pen.A, d, r) = 0
             /\ At(red.b, Renum(F, r)) = At(pen.b, r)

C4_SameFreeSystem ==
    [][PassStep =>
          LET other == IF reduce_boundary
                       THEN set_boundary_conditions(A_entries, b, fixed_dof_ixs',
                                fixed_dof_values', sort_variant)
                       ELSE reduce_system(A_entries, b, fixed_dof_ixs',
                                fixed_dof_values', sort_variant)
              this == [A |-> A_entries', b |-> b']
          IN \A red \in {IF reduce_boundary THEN this ELSE other} :
                \A pen \in {IF reduce_boundary THEN other ELSE this} :
                   C4_Agree(red, pen, FixedSet(fixed_dof_ixs'), Len(b))]_vars

\* both strategies were applied to a system with a fixed and a free dof of
\* a point shared by two cells
C4_Witness ==
    /\ PassReturned
    /\ NumCells(mesh) = 2
    /\ fixed_dof_ixs = <<1, 2>>

\* C5: reduce_system and set_boundary_conditions raise invalid-argument
\* exactly when the index array is not ascending, matmul exactly when the
\* inner dimensions after transposition differ; a raising call leaves the
\* triplet list and right-hand side (the result buffer) as they were.
C5_InnerDims ==
    <<IF mm.transposed1 THEN mm.r1 ELSE mm.c1,
      IF mm.transposed2 THEN mm.c2 ELSE mm.r2>>

C5_ErrorsBeforeWrites ==
    [][/\ (call = "assemble_mech_system" /\ pc = "bc" /\ pc' # "bc") =>
            /\ (pc' = "failed") <=> ~Ascending(fixed_dof_ixs')
            /\ pc' = "failed" => A_entries' = A_entries /\ b' = b
       /\ (call = "matmul" /\ pc = "entry" /\ pc' # "entry") =>
            /\ (pc' = "failed") <=> (C5_InnerDims[1] # C5_InnerDims[2])
            /\ pc' = "failed" => mm'.result = mm.result]_vars

\* a boundary pass raised on a non-empty system
C5_Witness ==
    /\ call = "assemble_mech_system"
    /\ pc = "failed"
    /\ fixed_dof_ixs = <<3, 1>>
    /\ A_entries # <<>>

\* the points referenced by the mesh and by one of its cells
PointsOf(m) ==
    IF m.dim = 2 THEN {m.cell_corners[k] : k \in 1..Len(m.cell_corners)}
    ELSE {m.face_corners[k] : k \in 1..Len(m.face_corners)}

LargestPoint(m) == CHOOSE p \in PointsOf(m) : \A q \in PointsOf(m) : q <= p

\* the index pairs of a triplet list, values blanked
Positions(A) == [k \in 1..Len(A) |-> <<Row(A[k]), Col(A[k]), 0>>]

\* C6: the value returned by assemble_mech_system_2D/3D is the final
\* length of b; under the penalty strategy it is Dim x num_points
\* (num_points = largest referenced point index + 1) and the pass changes
\* neither the number of triplets nor their indices; under reduction it is
\* Dim x num_points minus the number of fixed dofs.
C6_ReturnValue ==
    [][PassStep =>
          LET ndof == mesh.dim * (LargestPoint(mesh) + 1)
          IN /\ ret' = Len(b')
             /\ ~reduce_boundary =>
                   /\ ret' = ndof
                   /\ SameBag(Positions(A_entries'), Positions(A_entries))
             /\ reduce_boundary =>
                   ret' = ndof - Cardinality(FixedSet(fixed_dof_ixs'))]_vars

\* a reduction with a repeated Dirichlet index returned
C6_Witness ==
    /\ ReduceReturned
    /\ fixed_dof_ixs = <<1, 1>>
    /\ ret = mesh.dim * (LargestPoint(mesh) + 1) - 1

\* the local ordering of cell cell: in 2D the corner list of the cell, in 3D
\* the distinct points of its faces in ascending order
C7_Offset2D(m, cell) == Accumulate(m.num_cell_faces, 0, cell)

C7_Points3D(m, cell) ==
    LET first == Accumulate(m.num_cell_faces, 0, cell)
        from == Accumulate(m.num_face_corners, 0, first)
        to == Accumulate(m.num_face_corners, 0,
                         first + At(m.num_cell_faces, cell))
    IN {m.face_corners[k] : k \in (from + 1)..to}

C7_Order(m, cell) ==
    IF m.dim = 2
    THEN SubSeq(m.cell_corners, C7_Offset2D(m, cell) + 1,
                C7_Offset2D(m, cell) + At(m.num_cell_faces, cell))
    ELSE LET S == C7_Points3D(m, cell)
         IN [k \in 1..Cardinality(S) |->
               CHOOSE p \in S : Cardinality({q \in S : q < p}) = k - 1]

C7_Size(m, cell) == (m.dim * Len(C7_Order(m, cell))) * (m.dim * Len(C7_Order(m, cell)))

RECURSIVE C7_Start(_, _)
C7_Start(m, cell) ==
    IF cell = 0 THEN 0 ELSE C7_Start(m, cell - 1) + C7_Size(m, cell - 1)

\* C7: before the boundary pass every cell with n corners has contributed
\* exactly (Dim*n)^2 triplets; the triplet of local entry (i,j) has row
\* Dim*g(i div Dim) + i mod Dim and column Dim*g(j div Dim) + j mod Dim for
\* the local ordering g the local matrix was built with (so its value is the
\* stiffness between exactly these two global dofs), and all indices lie in
\* 0..Dim*num_points-1.
C7_CellTriplets ==
    (call = "assemble_mech_system" /\ pc \in {"cells", "bc"}) =>
        /\ Len(A_entries) = C7_Start(mesh, c)
        /\ \A cell \in 0..(c - 1) :
              LET g == C7_Order(mesh, cell)
                  n == mesh.dim * Len(g)
              IN \A i \in 0..(n - 1), j \in 0..(n - 1) :
                    LET t == At(A_entries, C7_Start(mesh, cell) + i * n + j)
                    IN /\ Row(t) = mesh.dim * At(g, i \div mesh.dim) + (i % mesh.dim)
                       /\ Col(t) = mesh.dim * At(g, j \div mesh.dim) + (j % mesh.dim)
                       /\ Val(t) = StiffnessValue(cell, Row(t), Col(t), kseed)
                       /\ Row(t) \in 0..(mesh.dim * num_points - 1)
                       /\ Col(t) \in 0..(mesh.dim * num_points - 1)

\* the tetrahedron, whose face list does not start with its smallest point,
\* has been assembled
C7_Witness ==
    /\ call = "assemble_mech_system"
    /\ pc = "bc"
    /\ mesh.dim = 3
    /\ Len(A_entries) = 144

\* C8: the outputs of assemble_mech_system_2D/3D (triplet list, right-hand
\* side, return value) are a function of the inputs only: two calls with
\* equal inputs but different prior contents of A_entries and b yield equal
\* outputs.
C8_FreshPerCall ==
    PassReturned =>
        /\ A_entries = twin.A_entries
        /\ b = twin.b
        /\ ret = twin.ret

\* two calls that started from different vectors have returned
C8_Witness ==
    /\ PassReturned
    /\ PriorA # PriorTwin.A_entries
    /\ PriorB # PriorTwin.b
    /\ twin.ret >= 0
    /\ NumCells(mesh) = 2

C9_Selected == IF reduce_boundary THEN "reduce_system" ELSE "set_boundary_conditions"

\* C9: in every assembly call exactly one of the two boundary strategies
\* (reduction when reduce_boundary is true, penalty otherwise) runs, exactly
\* once, and only after the triplets and body-force loads of every cell and
\* all Neumann loads have been added; no cell contribution is added after
\* the boundary pass has started.
C9_PassAfterAccumulation ==
    [][call = "assemble_mech_system" =>
          /\ Len(passes') <= 1
          /\ passes' # passes =>
                /\ passes = <<>>
                /\ passes' = <<C9_Selected>>
                /\ pc = "bc"
                /\ c = NumCells(mesh)
                /\ Len(A_entries) = C7_Start(mesh, NumCells(mesh))
          /\ pc' \in {"done", "failed"} => passes' = <<C9_Selected>>
          /\ pc' = "bc" => passes' = <<>> /\ c' = NumCells(mesh)
          /\ passes # <<>> => c' = c /\ pc' \notin {"cells", "bc"}]_vars

\* a call with two cells and a Neumann load has run its boundary pass
C9_Witness ==
    /\ call = "assemble_mech_system"
    /\ pc \in {"done", "failed"}
    /\ Len(passes) = 1
    /\ NumCells(mesh) = 2
    /\ neumann_faces # <<>>
    /\ c = 2

TessReturned == call = "tessellate_face" /\ pc = "done"

\* C10 as stated: tessellation of an N-corner face (N >= 3) yields exactly
\* 2N triangles for every value of skip_if_tri.
C10_Always2N ==
    TessReturned => Len(tess.tris) = 2 * tess.num_corners

\* C10 (amended): tessellation of an N-corner face yields exactly 2N
\* triangles, except that a 3-corner face tessellated with skip_if_tri set
\* yields exactly one triangle.
C10_TriangleCount ==
    TessReturned =>
        Len(tess.tris) = IF tess.skip_if_tri /\ tess.num_corners = 3 THEN 1
                         ELSE 2 * tess.num_corners

\* a triangle was tessellated with skip_if_tri set
C10_Witness ==
    /\ TessReturned
    /\ tess.num_corners = 3
    /\ tess.skip_if_tri
    /\ Len(tess.tris) = 1

\* ---------------------------------------------------------------- C11
ConsumerReturned == call \in Consumers /\ pc = "done"

\* the tessellation the consumers work on
C11_Tris ==
    tessellate_face(pick_points(attr.face, Len(attr.face)), Len(attr.face),
                    FALSE, FALSE).tris

\* what the consumer wrote for the corner at position k of the face, as a
\* multiple 'share' of the force (of 1 for face_integral_impl)
C11_Wrote(k, share) ==
    CASE call = "face_integral_impl" -> At(attr.out, k) = share
      [] call = "compute_bodyforce_2D" ->
           \A d \in 0..1 : At(attr.out, 2 * k + d) = attr.force[d + 1] * share
      [] OTHER ->
           \A d \in 0..2 :
              At(attr.out, 3 * At(attr.face, k) + d) = attr.force[d + 1] * share

\* C11 as stated: every consumer attributes the triangles 2c and 2c+1 of
\* the 2N-triangle tessellation to corner c.
C11_PairOfCorner ==
    ConsumerReturned =>
        \A k \in 0..(Len(attr.face) - 1) :
            C11_Wrote(k, Measure(At(C11_Tris, 2 * k))
                         + Measure(At(C11_Tris, 2 * k + 1)))

\* C11, amended: triangle 2c contains corner c and triangle 2c+1 contains
\* corner (c+1) mod N; every consumer attributes to corner c the triangles
\* 2c and (2c-1) mod 2N, the two triangles that contain corner c.
C11_TrianglesOfCorner ==
    ConsumerReturned =>
        LET n == Len(attr.face)
        IN \A k \in 0..(n - 1) :
              /\ At(C11_Tris, 2 * k)[2] = CornerPt(At(attr.face, k))
              /\ At(C11_Tris, 2 * k + 1)[3] = CornerPt(At(attr.face, (k + 1) % n))
              /\ C11_Wrote(k, Measure(At(C11_Tris, 2 * k))
                              + Measure(At(C11_Tris, (2 * k - 1 + 2 * n) % (2 * n))))

\* the basis functions of a quadrilateral face were integrated
C11_Witness ==
    /\ ConsumerReturned
    /\ call = "face_integral_impl"
    /\ attr.face = <<3, 2, 1, 0>>
    /\ Len(attr.out) = 4

InGeometry == call = "compute_cell_geometry"

\* identify_star_point has returned a point to compute_cell_geometry
StarPointReturned == InGeometry /\ pc \in {"volume", "done"}

GeometryReturned == InGeometry /\ pc = "done"

NumFaces == Len(geo.computed_normals)

\* C13: whenever compute_cell_geometry returns normally, its star point is
\* behind every face (against the face's output normal and centroid), be it
\* the point found by the search or the cell centroid; the point the search
\* returns is behind every face as well.
C13_StarPointBehindFaces ==
    StarPointReturned =>
        \A k \in 1..NumFaces :
            Dot(pointdiff(geo.face_centroids[k], geo.star_point),
                geo.outward_normals[k]) >= 0

\* the search moved the point, and the cell centroid did not replace it
C13_Witness ==
    /\ GeometryReturned
    /\ geo.star_point # geo.cell_centroid
    /\ geo.star_point # geo.mean_of_points

\* the search has converged after the checks h: the point has been found
\* behind N - 1 consecutive faces since it was last moved, or behind all N
\* faces without being moved
C14_Converged(h, N) ==
    /\ Len(h) >= N
    /\ \A k \in (Len(h) - N + 2)..Len(h) : h[k].behind

\* C14: identify_star_point makes at most 20 * num_faces face checks, on
\* the faces in cyclic index order; it throws exactly when the budget is
\* used up without convergence and returns a point exactly when the search
\* converged within the budget.
C14_BudgetAndOutcome ==
    InGeometry =>
        LET h == geo.st.checked
        IN /\ Len(h) <= 20 * NumFaces
           /\ \A k \in 1..Len(h) : h[k].f_ix = (k - 1) % NumFaces
           /\ pc = "failed" =>
                 Len(h) = 20 * NumFaces /\ ~C14_Converged(h, NumFaces)
           /\ StarPointReturned => C14_Converged(h, NumFaces)
           /\ (pc = "star" /\ C14_Converged(h, NumFaces)) => geo.st.broke

\* the budget of a two-face cell was used up and the search threw
C14_Witness ==
    /\ InGeometry
    /\ pc = "failed"
    /\ Len(geo.st.checked) = 40

\* N times the sum over the faces of (face centroid - average of the face
\* centroids) . normal, computed without forming the average
C15_Sum ==
    LET N == NumFaces
        total(d) == SumSeq([k \in 1..N |-> geo.computed_centroids[k][d]])
        nsum(d) == SumSeq([k \in 1..N |-> geo.computed_normals[k][d]])
    IN N * SumSeq([k \in 1..N |->
               Dot(geo.computed_centroids[k], geo.computed_normals[k])])
       - (total(1) * nsum(1) + total(2) * nsum(2) + total(3) * nsum(3))

OrientationDecided == InGeometry /\ pc \notin {"entry", "orient"}

\* C15 as stated: a cell is accepted exactly when the sum is negative and
\* rejected otherwise.
C15_AcceptedIffNegative ==
    OrientationDecided => (pc # "aborted" <=> C15_Sum < 0)

\* C15, amended: a cell is rejected only when the sum is negative, and a
\* cell whose sum is zero or positive is accepted.
C15_RejectedOnlyIfNegative ==
    OrientationDecided => (pc = "aborted" => C15_Sum < 0)

\* a cell with a negative sum was rejected
C15_Witness ==
    /\ InGeometry
    /\ pc = "aborted"
    /\ C15_Sum < 0
    /\ NumFaces = 2

\* C16: when the orientation check reports inward-pointing normals,
\* compute_cell_geometry stops: it does not reach the star point search nor
\* anything after it; and the normals it outputs are those computed per
\* face, never negated.
C16_StopsWhenInward ==
    InGeometry =>
        /\ geo.outward_normals \in {<<>>, geo.computed_normals}
        /\ C15_Sum < 0 => pc \in {"entry", "orient", "aborted"}

\* ---------------------------------------------------------------- C17
\* C17: after global_to_local_indexing for a cell, indexing is strictly
\* ascending and lists exactly the distinct point indices of the cell's
\* faces, reindex[indexing[i]] = i for every i, and every face corner maps
\* to a local index in 0..N-1; nothing of the previous cell's map is left.
C17_CellBijection ==
    (call = "global_to_local_indexing" /\ g2l.calls > 0) =>
        LET N == Len(g2l.indexing)
            referenced == {g2l.faces[k] : k \in 1..Len(g2l.faces)}
        IN /\ \A i \in 1..N, j \in 1..N :
                 i < j => g2l.indexing[i] < g2l.indexing[j]
           /\ {g2l.indexing[i] : i \in 1..N} = referenced
           /\ DOMAIN g2l.reindex = referenced
           /\ \A i \in 1..N : g2l.reindex[g2l.indexing[i]] = i - 1
           /\ \A k \in 1..Len(g2l.faces) :
                 g2l.reindex[g2l.faces[k]] \in 0..(N - 1)

\* the map was built for a cell that does not reference a point the
\* previous cell referenced
C17_Witness ==
    /\ call = "global_to_local_indexing"
    /\ g2l.calls = 2
    /\ g2l.previous = <<0, 1, 2, 3>>
    /\ g2l.indexing = <<1, 3, 6>>

\* ---------------------------------------------------------------- C18
\* C18: in an assembly call the stability term of every cell assembled so
\* far was built by the function the argument stability_choice selects,
\* compute_S_D_recipe for D_RECIPE and compute_S for SIMPLE and HARMONIC,
\* handed that same choice; the assertion of compute_S never fails; S is a
\* square matrix of the cell's dofs with zeros outside its diagonal.
C18_OneFormulaPerCall ==
    call = "assemble_mech_system" =>
        /\ Len(stab) = c
        /\ \A k \in 1..Len(stab) :
              /\ stab[k].by = IF stability_choice = "D_RECIPE"
                              THEN "compute_S_D_recipe" ELSE "compute_S"
              /\ stab[k].choice = stability_choice
              /\ ~stab[k].asserted
              /\ \E n \in 1..Len(stab[k].S) :
                    /\ Len(stab[k].S) = n * n
                    /\ \A i \in 0..(n - 1), j \in 0..(n - 1) :
                          i # j => stab[k].S[i * n + j + 1] = 0

\* a call with D_RECIPE has assembled two cells and returned
C18_Witness ==
    /\ PassReturned
    /\ stability_choice = "D_RECIPE"
    /\ Len(stab) = 2
    /\ \A k \in 1..2 : stab[k].by = "compute_S_D_recipe"

\* ---------------------------------------------------------------- C19
Sparse2FullReturned == call = "sparse2full" /\ pc = "done"

\* the sum of the values of the triplets (i, j, v) of nz
TripletSum(nz, i, j) ==
    SumSeq([k \in 1..Len(SelectSeq(nz, LAMBDA t : Row(t) = i /\ Col(t) = j)) |->
               Val(SelectSeq(nz, LAMBDA t : Row(t) = i /\ Col(t) = j)[k])])

\* C19: when sparse2full(nz, r, c) has returned, the result has r * c
\* elements and position i * c + j holds the sum of the values of the
\* triplets (i, j, v), 0 where there is none, for every r and c.
C19_RowMajor ==
    Sparse2FullReturned =>
        /\ Len(s2f.result) = s2f.r * s2f.c
        /\ \A i \in 0..(s2f.r - 1), j \in 0..(s2f.c - 1) :
              s2f.result[i * s2f.c + j + 1] = TripletSum(s2f.nz, i, j)

\* ---------------------------------------------------------------- C20
ImPReturned == call = "assemble_stiffness_matrix_2D" /\ pc = "done"

\* the product M * M of the square matrix M.m, over the denominator
\* M.den * M.den
Squared(M, n) ==
    matmul(M.m, n, n, FALSE, M.m, n, n, FALSE, [k \in 1..(n * n) |-> 0], 1).result

\* C20: the matrix I - P returned by compute_ImP for a cell is
\* idempotent, (I - P) * (I - P) = I - P.
C20_Idempotent ==
    ImPReturned =>
        LET n == 2 * Len(imp.corners)
        IN \A sq \in {Squared(imp.ImP, n)} :
              \A k \in 1..(n * n) : sq[k] = imp.ImP.den * imp.ImP.m[k]

\* ---------------------------------------------------------------- C23
\* C23: the loop of identify_star_point is left by break only when the
\* last num_faces checks, one per face, each found the candidate already
\* behind the face; a check that moved the candidate is not among them.
C23_BreakAfterNBehind ==
    (InGeometry /\ geo.st.broke) =>
        LET h == geo.st.checked
        IN /\ Len(h) >= NumFaces
           /\ \A k \in (Len(h) - NumFaces + 1)..Len(h) : h[k].behind

\* ---------------------------------------------------------------- C24
\* an iteration of the search that found the candidate in front of the
\* face it checked
CorrectionStep ==
    /\ InGeometry
    /\ pc = "star"
    /\ Len(geo'.st.checked) = Len(geo.st.checked) + 1
    /\ ~geo'.st.checked[Len(geo'.st.checked)].behind

\* signed distance of point from the plane of the face checked in this
\* iteration, positive in front of the face
SignedDistance(point) ==
    LET f_ix == geo.st.i % NumFaces
    IN Dot(pointdiff(point, At(geo.face_centroids, f_ix)),
           At(geo.outward_normals, f_ix))

\* the step leaves the coordinates alone in which the normal is zero
AlongNormalOnly ==
    \A ii \in 1..3 :
        At(geo.outward_normals, geo.st.i % NumFaces)[ii] = 0
            => geo'.st.result[ii] = geo.st.result[ii]

\* C24 as stated: a candidate at distance p > 0 in front of the face is at
\* distance -1.1 * p afterwards (coordinates are rounded to integers: 10
\* times the distance is within 5 of -11 * p), moved along the normal only.
C24_ElevenTenthsBehind ==
    [][CorrectionStep =>
         /\ SignedDistance(geo.st.result) > 0
         /\ 10 * SignedDistance(geo'.st.result)
               + 11 * SignedDistance(geo.st.result) \in -5..5
         /\ AlongNormalOnly]_vars

\* C24, amended: the candidate is moved by 1.1 * p against the normal, so
\* that it is at distance -0.1 * p afterwards (10 times the distance is
\* within 5 of -p, and exactly -p when p is a multiple of 10), moved along
\* the normal only.
C24_OneTenthBehind ==
    [][CorrectionStep =>
         /\ SignedDistance(geo.st.result) > 0
         /\ 10 * SignedDistance(geo'.st.result)
               + SignedDistance(geo.st.result) \in -5..5
         /\ AlongNormalOnly]_vars

\* the mean of the points, 60 in front of the first face, was moved to 6
\* behind it
C24_Witness ==
    /\ InGeometry
    /\ geo.mean_of_points = <<0, 0, 0>>
    /\ geo.st.checked = <<[f_ix |-> 0, behind |-> FALSE]>>
    /\ geo.st.result = <<-66, 0, 0>>

\* ---------------------------------------------------------------- C25
\* C25: when compute_cell_geometry has returned, the star point equals the
\* cell centroid exactly when the centroid passes the star-point test
\* against all faces, and is the point the search returned otherwise; the
\* tetrahedra that gave volume and centroid were completed with the point
\* the search returned, whether or not the centroid replaced it afterwards.
C25_CentroidReplacesStarPoint ==
    GeometryReturned =>
        /\ geo.star_point = geo.cell_centroid
              <=> is_star_point(geo.cell_centroid, geo.outward_normals,
                                geo.face_centroids)
        /\ geo.star_point # geo.cell_centroid
              => geo.star_point = geo.st.result
        /\ geo.apex = geo.st.result

\* the centroid replaced a point that the search had moved
C25_Witness ==
    /\ GeometryReturned
    /\ geo.star_point = geo.cell_centroid
    /\ geo.st.result # geo.cell_centroid
    /\ geo.st.result # geo.mean_of_points
    /\ geo.apex = geo.st.result

\* ---------------------------------------------------------------- C22
\* C22: when assemble_mech_system_2D/3D raises for an index array that is
\* not ascending, no cell has been assembled and the caller's A_entries and
\* b hold what they held before the call.
C22_FailureLeavesVectors ==
    (call = "assemble_mech_system" /\ pc = "failed") =>
        /\ ~Ascending(fixed_dof_ixs)
        /\ c = 0
        /\ A_entries = PriorA
        /\ b = PriorB

\* ---------------------------------------------------------------- C29
\* the matrix of n rows and columns a triplet list represents, duplicates
\* summed
RECURSIVE SumMatrix(_, _, _)
SumMatrix(A, k, M) ==
    IF k > Len(A) THEN M
    ELSE SumMatrix(A, k + 1,
                   [M EXCEPT ![<<Row(A[k]), Col(A[k])>>] = @ + Val(A[k])])

Symmetric(A, n) ==
    \A M \in {SumMatrix(A, 1, [ij \in (0..(n - 1)) \X (0..(n - 1)) |-> 0])} :
        \A i \in 0..(n - 1), j \in 0..(n - 1) :
            i < j => M[<<i, j>>] = M[<<j, i>>]

\* C29: if the assembled triplet list represents a symmetric matrix, the
\* list left by reduce_system, and the one left by
\* set_boundary_conditions, represents a symmetric matrix, for every
\* ascending array of fixed dofs and every prescribed values.
C29_PassesPreserveSymmetry ==
    [][(PassStep /\ Symmetric(A_entries, Len(b)))
          => Symmetric(A_entries', Len(b'))]_vars

\* a pass has fixed two dofs of a system assembled from symmetric local
\* matrices and left entries off the diagonal
C29_Witness ==
    /\ PassReturned
    /\ kseed = 0
    /\ Len(fixed_dof_ixs) = 2
    /\ fixed_dof_ixs[1] < fixed_dof_ixs[2]
    /\ \E k \in 1..Len(A_entries) :
          Row(A_entries[k]) # Col(A_entries[k]) /\ Val(A_entries[k]) # 0
    /\ \A M \in {SumMatrix(A_entries, 1,
                     [ij \in (0..(Len(b) - 1)) \X (0..(Len(b) - 1)) |-> 0])} :
          \E i \in 0..(Len(b) - 1), j \in 0..(Len(b) - 1) :
              i # j /\ M[<<i, j>>] # 0 /\ M[<<i, j>>] = M[<<j, i>>]

\* ---------------------------------------------------------------- C26
LoadReturned == ConsumerReturned /\ call # "face_integral_impl"

\* the position in the face of the one input corner that triangle t of the
\* tessellation contains
C26_Owner(t) ==
    LET tri == At(C11_Tris, t)
        p == IF tri[2][1] = "corner" THEN tri[2][2] ELSE tri[3][2]
    IN CHOOSE k \in 0..(Len(attr.face) - 1) : At(attr.face, k) = p

\* the measure of the triangles that corner k owns
C26_Tributary(k) ==
    SumSeq([i \in 1..Len(C11_Tris) |->
               IF C26_Owner(i - 1) = k THEN Measure(C11_Tris[i]) ELSE 0])

\* component d of the sum of all nodal contributions
C26_Total(d) ==
    LET dim == Len(attr.force)
    IN SumSeq([k \in 1..Len(attr.face) |-> At(attr.out, dim * (k - 1) + d)])

\* C26: in load distribution every triangle of the 2N-triangle tessellation
\* of a face is attributed to exactly one corner (the one it contains) and
\* every corner receives exactly two triangles, so that the nodal
\* contributions sum to the force times the total tessellated measure; on a
\* 2D edge each end node receives half the edge length times the force.
C26_EveryTriangleOnce ==
    /\ LoadReturned =>
          LET n == Len(attr.face)
          IN /\ Len(C11_Tris) = 2 * n
             /\ \A k \in 0..(n - 1) :
                   /\ Cardinality({i \in 0..(2 * n - 1) : C26_Owner(i) = k}) = 2
                   /\ C11_Wrote(k, C26_Tributary(k))
             /\ \A d \in 0..(Len(attr.force) - 1) :
                   C26_Total(d) = attr.force[d + 1]
                                    * SumSeq([i \in 1..(2 * n) |-> Measure(C11_Tris[i])])
    /\ \A n1, n2 \in 0..(MaxCorners - 1), fx, fy \in -1..1 :
          LET fvals == compute_applied_forces_2D(n1, n2, fx, fy)
          IN /\ fvals[1] = HalfLength(n1, n2) * fx
             /\ fvals[3] = fvals[1]
             /\ fvals[2] = HalfLength(n1, n2) * fy
             /\ fvals[4] = fvals[2]

\* the body force of a 3D cell was distributed over a pentagonal face
C26_Witness ==
    /\ LoadReturned
    /\ call = "compute_bodyforce_3D"
    /\ Len(attr.face) = 5
    /\ C26_Total(0) = 55

\* ---------------------------------------------------------------- C30
\* C30: every caller that indexes a tessellation as 2N triangles
\* (face_integral_impl, the three load functions) and compute_face_geometry
\* pass skip_if_tri = false: the tessellation they get has 2N triangles also
\* for a triangular face, so that the assertion on its size holds, and
\* compute_face_geometry finds the centroid written; only the volume loop of
\* compute_cell_geometry takes the single triangle of a triangular face.
C30_ShortcutOnlyInVolumeLoop ==
    /\ \A caller \in TessellationCallers :
          skip_if_tri_of(caller) <=> (caller = "volume_loop")
    /\ (call \in Consumers /\ pc # "entry") =>
          pc = "done" /\ attr.ntris = 2 * Len(attr.face)
    /\ (call = "compute_face_geometry" /\ pc = "done") =>
          /\ attr.ntris = 2 * Len(attr.face)
          /\ attr.centroid = face_centroid(pick_points(attr.face, Len(attr.face)))
    /\ (call = "volume_loop" /\ pc = "done") =>
          attr.ntris = IF Len(attr.face) = 3 THEN 1 ELSE 2 * Len(attr.face)

\* the geometry of a triangular face was computed
C30_Witness ==
    /\ call = "compute_face_geometry"
    /\ pc = "done"
    /\ Len(attr.face) = 3
    /\ attr.ntris = 6
    /\ attr.centroid = <<"centroid", 0, 0>>

\* ---------------------------------------------------------------- C27
BodyForceDistributed == call = "compute_cell_geometry" /\ pc = "bodyforce"

\* C27: the tetrahedra that distribute the body force of a 3D cell have as
\* apex the cell's star point, the apex of the volume and centroid
\* decomposition, and never a point that fails the star-point test.
C27_BodyForceApexIsStarPoint ==
    BodyForceDistributed =>
        /\ geo.bodyforce_apex = geo.apex
        /\ geo.bodyforce_apex = geo.star_point
        /\ is_star_point(geo.bodyforce_apex, geo.outward_normals,
                         geo.face_centroids)

\* ---------------------------------------------------------------- C21
StiffnessAssembled == call = "assemble_stiffness_matrix_2D" /\ pc = "assembled"

\* C21: the local stiffness matrix final_assembly writes to target,
\* Volume * Wc * D * Wc^T + (I-P)^T * S * (I-P), is symmetric for every cell
\* and each of the three stability choices: entry (i, j) equals entry (j, i).
C21_TargetSymmetric ==
    StiffnessAssembled =>
        LET N == 2 * Len(imp.corners)
        IN /\ Len(imp.target.m) = N * N
           /\ \A i, j \in 0..(N - 1) :
                 At(imp.target.m, i * N + j) = At(imp.target.m, j * N + i)

\* the stiffness matrix of the trapezoid was assembled with the stability
\* term of the D recipe, and it is not a diagonal matrix
C21_Witness ==
    /\ StiffnessAssembled
    /\ imp.choice = "D_RECIPE"
    /\ imp.corners = << <<0, 0>>, <<2, 0>>, <<2, 1>>, <<0, 3>> >>
    /\ At(imp.target.m, 1) # 0
    /\ At(imp.target.m, 0) # 0

\* ---------------------------------------------------------------- C28
StressReturned == call = "calculate_stress_3D_local" /\ pc = "done"

\* the product of the emitted operator with disp in row I: the sum of
\* v * disp[J] over the triplets (I, J, v) for k..
RECURSIVE C28_OperatorRow(_, _)
C28_OperatorRow(I, k) ==
    IF k > Len(strs.stressmat) THEN 0
    ELSE (IF Row(strs.stressmat[k]) = I
          THEN Val(strs.stressmat[k]) * At(strs.disp, Col(strs.stressmat[k]))
          ELSE 0)
         + C28_OperatorRow(I, k + 1)

\* row i of the matrix D * Wc^T (or Wc^T) times the displacement of the
\* cell's corners, as a numerator over strs.den
C28_Unscaled(i) ==
    LET totdim == 3 * Len(strs.indexing)
        matrix == StressMatrix(compute_Wc_3D(strs.q),
                               compute_D_3D(strs.young, strs.poisson),
                               totdim, strs.do_stress)
    IN SumSeq([j \in 1..totdim |->
          2 * At(matrix.m, i * totdim + (j - 1))
            * At(strs.disp, 3 * At(strs.indexing, (j - 1) \div 3) + ((j - 1) % 3))])

\* C28: in calculate_stress_3D_local the shear components 3..5 are halved
\* exactly when do_stress is set, and by the same factor in the stress
\* vector and in the emitted operator: with do_matrix set and a stress entry
\* that was zero on entry, stress[i] equals the sum of v * disp[J] over the
\* triplets (6 * cell + i, J, v) appended for the cell.
C28_OperatorMatchesStress ==
    StressReturned =>
        \A i \in 0..5 :
            At(strs.stress_in, i) = 0 =>
                /\ At(strs.stress, i) * (IF strs.do_stress /\ i >= 3 THEN 2 ELSE 1)
                     = C28_Unscaled(i)
                /\ strs.do_matrix =>
                     At(strs.stress, i) = C28_OperatorRow(6 * strs.cell + i, 1)

\* with elasticity scaling and the operator requested, a shear component of
\* cell 1 came out non-zero
C28_Witness ==
    /\ StressReturned
    /\ strs.do_matrix
    /\ strs.do_stress
    /\ strs.cell = 1
    /\ At(strs.stress_in, 4) = 0
    /\ At(strs.stress, 4) # 0
    /\ Len(strs.stressmat) >= 72

====
